---- MODULE Spec2Model ----
(***************************************************************************)
(* Format discovery of bevy_brp_extras.                                    *)
(*                                                                         *)
(* The repository holds the discovery engine twice: the module tree        *)
(* src/discovery/ (core.rs, spawn.rs, mutation.rs, examples.rs, ...) and   *)
(* the single file src/discovery.rs.  Both are modelled, operator by       *)
(* operator, and a discovery call runs through one of them (variable       *)
(* engine).  Operators of src/discovery/ whose name also exists in         *)
(* src/discovery.rs carry their module as a prefix (core_, examples_,      *)
(* registry_); loops of a function are named <module>_.._loop.             *)
(*                                                                         *)
(* Three specifications: Spec (the registry is written only between        *)
(* calls), SpecConc (a type may be registered while a call runs) and       *)
(* SpecLock (a call proceeds one request for the registry's read lock at   *)
(* a time, next to a thread that takes the write lock).  The request       *)
(* handler and the response it builds are part of every call.              *)
(* SpecWalk follows discover_type_format_recursive_with_error_handling     *)
(* frame by frame on types whose fields lead back to themselves.  The      *)
(* rest of the app has a specification each: SpecKeys (src/keyboard.rs:    *)
(* send_keys and the system that releases the keys, under fair frames)     *)
(* and SpecShutdown (src/shutdown.rs).                                     *)
(*                                                                         *)
(* JSON values are tagged records, Result<T, E> is Ok(v) / Err(e), a       *)
(* type path is a string, and text built with format! is a sequence of     *)
(* its pieces.                                                             *)
(***************************************************************************)
EXTENDS Integers, Sequences, FiniteSets, TLC

VARIABLES
    registry,     \* AppTypeRegistry: the set of registered type paths
    reg0,         \* the registry as it was when the call started
    pc,           \* "idle" | "running" | "done": position of the discovery call;
                  \* "applied": a generator has been applied to one type
    engine,       \* "modular" (src/discovery/) | "monolith" (src/discovery.rs)
    type_names,   \* the requested type names of the call
    idx,          \* index of the next name of the for loop
    result,       \* DiscoveryResult { formats, errors } the call is building
    writes,       \* registry writes that happened while the call ran
    probe,        \* the last application of a generator to one type: the
                  \* function, the type path, the registry it saw, its output
    params,       \* In(params) of the last handler request, or NoRequest
    response,     \* BrpResult of the last request, or NoResponse
    lock,         \* the RwLock of the registry: read guards of the calling
                  \* thread, and the state of the writer thread
    walk,         \* the lock requests the current lookup has still to make,
                  \* and the outcome it returns; or NoWalk
    DEBUG_ENABLED, \* debug_mode.rs: the process-wide AtomicBool
    include_debug, \* the handler's local: what is_debug_enabled() returned
    debug_info,   \* the messages of the DebugContext of the current request
    stack,        \* the frames of discover_type_format_recursive_with_error_handling
                  \* on the call stack: the type path of each and the index
                  \* of the field it goes into next
    keyboard_events, \* Events<KeyboardInput>: the events sent so far, oldest
                  \* first; `by` is not a field of the event: it records the
                  \* send_keys request the event belongs to
    timed_releases, \* the entities with a TimedKeyRelease component, in spawn
                  \* order
    requests,     \* the number of send_keys requests handled so far
    time_delta,   \* Res<Time>: time.delta() of the current frame, in ms
    pending,      \* the PendingShutdown resource: None or Some(frames_remaining)
    app_exits,    \* the number of AppExit events written so far
    shutdowns     \* for each shutdown request so far, the number of runs of
                  \* deferred_shutdown_system since it was handled

handler_vars == <<params, response>>

lock_vars == <<lock, walk>>

debug_vars == <<DEBUG_ENABLED, include_debug, debug_info>>

keyboard_vars == <<keyboard_events, timed_releases, requests, time_delta>>

shutdown_vars == <<pending, app_exits, shutdowns>>

app_vars == <<keyboard_vars, shutdown_vars>>

\* What a discovery request does not touch.
other_vars == <<stack, app_vars>>

vars == <<registry, reg0, pc, engine, type_names, idx, result, writes, probe,
          params, response, lock, walk, DEBUG_ENABLED, include_debug, debug_info,
          stack, keyboard_events, timed_releases, requests, time_delta,
          pending, app_exits, shutdowns>>

\* result.formats: HashMap<String, FormatInfo>
formats == result.formats

\* result.errors: HashMap<String, Map<String, Value>>
errors == result.errors

\* Longest request list.
MaxTypes == 2

---------------------------------------------------------------------------
(* serde_json::Value                                                       *)

JNull == [k |-> "null"]
JBool(b) == [k |-> "bool", b |-> b]
JNum(lit) == [k |-> "number", lit |-> lit]
JStr(pieces) == [k |-> "string", s |-> pieces]
JArr(items) == [k |-> "array", items |-> items]
JObj(entries) == [k |-> "object", entries |-> entries]

Range(s) == {s[i] : i \in 1..Len(s)}

\* The keys of a JSON object.
ObjKeys(v) == {e[1] : e \in Range(v.entries)}

\* serde_json::Map::insert: a present key is overwritten in place.
MapInsert(entries, key, value) ==
    IF \E i \in 1..Len(entries) : entries[i][1] = key
    THEN [i \in 1..Len(entries) |->
             IF entries[i][1] = key THEN <<key, value>> ELSE entries[i]]
    ELSE Append(entries, <<key, value>>)

\* A message or "details" text: its sentences, each the pieces format! joins
\* (several sentences are joined with "; ").
Text(pieces) == <<pieces>>

Ok(v) == [ok |-> TRUE, val |-> v]
Err(e) == [ok |-> FALSE, err |-> e]

\* The `?` operator (core.rs 34, 38, 43): an Err is returned at once, an Ok
\* value goes on.
Try(r, Then(_)) == IF r.ok THEN Then(r.val) ELSE r

\* Result::unwrap_or_else
UnwrapOrElse(r, default) == IF r.ok THEN r.val ELSE default

\* match result { Ok(v) => .., Err(e) => .. } (core.rs 86-99)
Match(r, OnOk(_), OnErr(_)) == IF r.ok THEN OnOk(r.val) ELSE OnErr(r.err)

\* HashMap::insert.
HashInsert(m, key, value) == (key :> value) @@ m

EmptyMap == <<>>

---------------------------------------------------------------------------
(* The type paths of the model and the reflected TypeInfo of each.         *)

T_F32 == "f32"
T_BOOL == "bool"
T_STRING == "alloc::string::String"
T_I128 == "i128"
T_ARC == "alloc::sync::Arc<bevy_asset::handle::StrongHandle>"
T_SECRET == "game::Secret"
T_UNKNOWN == "UnknownType123"
T_VECF == "alloc::vec::Vec<f32>"
T_ARR == "[f32; 3]"
T_MAP == "std::collections::HashMap<alloc::string::String, f32>"
T_TUP == "(f32, bool)"
T_SET == "std::collections::HashSet<bool>"
T_VEC2 == "bevy_math::vec2::Vec2"
T_VEC3 == "bevy_math::vec3::Vec3"
T_VEC4 == "bevy_math::vec4::Vec4"
T_QUAT == "bevy_math::quat::Quat"
T_GLAM_VEC3 == "glam::Vec3"
T_GLAM_QUAT == "glam::Quat"
T_TRANSFORM == "bevy_transform::components::transform::Transform"
T_GOOD == "game::Good"
T_BAD == "game::Bad"
T_NESTED == "game::Nested"
T_HEALTH == "game::Health"
T_PAIR == "game::Pair"
T_HBOX == "game::HandleBox"
T_MODE == "game::Mode"
T_NEVER == "game::Never"
T_SHAPE == "game::Shape"
T_MSG == "game::Msg"
T_SEG == "game::Seg"
T_BODY == "game::Body"
T_PLACED == "game::Placed"
T_NODE == "game::Node"
T_PING == "game::Ping"
T_PONG == "game::Pong"
T_TREE == "game::Tree"
T_TREES == "alloc::vec::Vec<game::Tree>"

Field(n, t) == [name |-> n, type_path |-> t]
Struct(fs) == [kind |-> "Struct", fields |-> fs]
TupleStruct(ts) == [kind |-> "TupleStruct", fields |-> ts]
Tuple(ts) == [kind |-> "Tuple", fields |-> ts]
List(t) == [kind |-> "List", item |-> t]
Array(t, n) == [kind |-> "Array", item |-> t, capacity |-> n]
Map(kt, vt) == [kind |-> "Map", key |-> kt, value |-> vt]
Set(t) == [kind |-> "Set", value |-> t]
Opaque == [kind |-> "Opaque"]
Enum(vs) == [kind |-> "Enum", variants |-> vs]
UnitVariant(n) == [name |-> n, kind |-> "Unit"]
TupleVariant(n, ts) == [name |-> n, kind |-> "Tuple", fields |-> ts]
StructVariant(n, fs) == [name |-> n, kind |-> "Struct", fields |-> fs]

\* What reflection reports for each type path that can be registered.
TypeInfoOf ==
    (T_F32 :> Opaque) @@ (T_BOOL :> Opaque) @@ (T_STRING :> Opaque) @@ (T_I128 :> Opaque)
    @@ (T_VECF :> List(T_F32))
    @@ (T_ARR :> Array(T_F32, 3))
    @@ (T_MAP :> Map(T_STRING, T_F32))
    @@ (T_TUP :> Tuple(<<T_F32, T_BOOL>>))
    @@ (T_SET :> Set(T_BOOL))
    @@ (T_GOOD :> Struct(<<Field("x", T_F32), Field("label", T_STRING)>>))
    @@ (T_BAD :> Struct(<<Field("h", T_ARC), Field("x", T_F32), Field("s", T_SECRET)>>))
    @@ (T_NESTED :> Struct(<<Field("inner", T_GOOD), Field("items", T_VECF),
                           Field("table", T_MAP), Field("grid", T_ARR)>>))
    @@ (T_HEALTH :> TupleStruct(<<T_F32>>))
    @@ (T_PAIR :> TupleStruct(<<T_F32, T_BOOL>>))
    @@ (T_HBOX :> TupleStruct(<<T_ARC>>))
    @@ (T_MODE :> Enum(<<UnitVariant("V1"), UnitVariant("V2")>>))
    @@ (T_NEVER :> Enum(<<>>))
    @@ (T_SHAPE :> Enum(<<TupleVariant("Circle", <<T_F32>>),
                        TupleVariant("Rect", <<T_F32, T_F32>>)>>))
    @@ (T_MSG :> Enum(<<StructVariant("Move", <<Field("x", T_F32), Field("y", T_F32)>>),
                      UnitVariant("Quit")>>))
    @@ (T_SEG :> Enum(<<TupleVariant("Line", <<T_F32, T_SECRET>>), UnitVariant("Dot")>>))
    @@ (T_GLAM_VEC3 :> Struct(<<Field("x", T_F32), Field("y", T_F32), Field("z", T_F32)>>))
    @@ (T_GLAM_QUAT :> Struct(<<Field("x", T_F32), Field("y", T_F32), Field("z", T_F32),
                              Field("w", T_F32)>>))
    @@ (T_TRANSFORM :> Struct(<<Field("translation", T_GLAM_VEC3),
                              Field("rotation", T_GLAM_QUAT),
                              Field("scale", T_GLAM_VEC3)>>))
    @@ (T_BODY :> Struct(<<Field("uv", T_VEC2), Field("pos", T_VEC3),
                         Field("tint", T_VEC4), Field("spin", T_QUAT)>>))
    @@ (T_PLACED :> Struct(<<Field("at", T_TRANSFORM)>>))
    @@ (T_NODE :> Struct(<<Field("value", T_F32), Field("next", T_NODE)>>))
    @@ (T_PING :> Struct(<<Field("pong", T_PONG)>>))
    @@ (T_PONG :> TupleStruct(<<T_PING>>))
    @@ (T_TREE :> Struct(<<Field("children", T_TREES)>>))
    @@ (T_TREES :> List(T_TREE))

\* The types whose descriptors refer back to themselves: directly, through
\* each other, and through the items of a list.
RecursiveTypes == {T_NODE, T_PING, T_PONG, T_TREE, T_TREES}

\* The types of an application without a recursive type.
Registrable == DOMAIN TypeInfoOf \ RecursiveTypes

\* Every type path of the model.
TypePaths == Registrable \cup {T_ARC, T_SECRET, T_UNKNOWN, T_VEC2, T_VEC3, T_VEC4, T_QUAT}

\* The types a running application registers after start-up.
LateTypes == {T_GOOD, T_MODE}

\* The scalar type names of the two tables of primitive examples.
ScalarNames ==
    {"i8", "i16", "i32", "i64", "i128", "u8", "u16", "u32", "u64", "u128", "usize",
     "f32", "f64", "bool", "char", "alloc::string::String", "std::string::String",
     "String", "&str", "str"}

\* The names a primitive example is asked for.
PrimitiveInputs == ScalarNames \cup TypePaths \cup RecursiveTypes

\* str::contains(pattern) for the patterns the code tests, per type path.
Patterns ==
    (T_ARC :> {"Arc<", "StrongHandle"})
    @@ (T_VECF :> {"Vec"})
    @@ (T_MAP :> {"HashMap"})
    @@ (T_VEC2 :> {"bevy_math::", "Vec", "Vec2"})
    @@ (T_VEC3 :> {"bevy_math::", "Vec", "Vec3"})
    @@ (T_VEC4 :> {"bevy_math::", "Vec", "Vec4"})
    @@ (T_QUAT :> {"bevy_math::", "Quat"})
    @@ (T_GLAM_VEC3 :> {"Vec", "Vec3"})
    @@ (T_GLAM_QUAT :> {"Quat"})
    @@ (T_TRANSFORM :> {"Transform"})
    @@ (T_TREES :> {"Vec"})
    @@ [t \in PrimitiveInputs |-> {}]

Contains(type_name, pattern) == pattern \in Patterns[type_name]

\* The type paths that start with "bevy_math::".
BevyMathPaths == {t \in PrimitiveInputs : "bevy_math::" \in Patterns[t]}

StartsWithBevyMath(type_name) == type_name \in BevyMathPaths

\* type_name.split("::").last()
LastSegmentOf ==
    (T_STRING :> "String") @@ (T_ARC :> "StrongHandle>") @@ (T_SECRET :> "Secret")
    @@ (T_VECF :> "Vec<f32>") @@ (T_MAP :> "String, f32>")
    @@ (T_SET :> "HashSet<bool>")
    @@ (T_VEC2 :> "Vec2") @@ (T_VEC3 :> "Vec3") @@ (T_VEC4 :> "Vec4") @@ (T_QUAT :> "Quat")
    @@ (T_GLAM_VEC3 :> "Vec3") @@ (T_GLAM_QUAT :> "Quat") @@ (T_TRANSFORM :> "Transform")
    @@ (T_BODY :> "Body") @@ (T_PLACED :> "Placed")
    @@ (T_NODE :> "Node") @@ (T_PING :> "Ping") @@ (T_PONG :> "Pong")
    @@ (T_TREE :> "Tree") @@ (T_TREES :> "Tree>")
    @@ (T_GOOD :> "Good") @@ (T_BAD :> "Bad") @@ (T_NESTED :> "Nested")
    @@ (T_HEALTH :> "Health") @@ (T_PAIR :> "Pair") @@ (T_HBOX :> "HandleBox")
    @@ (T_MODE :> "Mode") @@ (T_NEVER :> "Never") @@ (T_SHAPE :> "Shape")
    @@ (T_MSG :> "Msg") @@ (T_SEG :> "Seg") @@ ("std::string::String" :> "String")
    @@ [t \in PrimitiveInputs |-> t]

---------------------------------------------------------------------------
(* src/discovery/examples.rs                                               *)

\* generate_primitive_example: the fixed table of examples, by exact name.
examples_generate_primitive_example(type_name) ==
    CASE type_name = "i8" -> Ok(JNum("-128"))
      [] type_name = "i16" -> Ok(JNum("-32768"))
      [] type_name = "i32" -> Ok(JNum("-2147483648"))
      [] type_name = "i64" -> Ok(JNum("-9223372036854775808"))
      [] type_name = "i128" -> Ok(JStr(<<"-170141183460469231731687303715884105728">>))
      [] type_name = "u8" -> Ok(JNum("255"))
      [] type_name = "u16" -> Ok(JNum("65535"))
      [] type_name = "u32" -> Ok(JNum("4294967295"))
      [] type_name = "u64" -> Ok(JNum("18446744073709551615"))
      [] type_name = "u128" -> Ok(JStr(<<"340282366920938463463374607431768211455">>))
      [] type_name = "f32" -> Ok(JNum("3.1415927410125732"))
      [] type_name = "f64" -> Ok(JNum("3.141592653589793"))
      [] type_name \in {"alloc::string::String", "std::string::String", "String"} ->
            Ok(JStr(<<"example_string">>))
      [] type_name \in {"&str", "str"} -> Ok(JStr(<<"example_str">>))
      [] type_name = "char" -> Ok(JStr(<<"A">>))
      [] type_name = "bool" -> Ok(JBool(TRUE))
      [] type_name = "bevy_math::vec2::Vec2" -> Ok(JArr(<<JNum("1.0"), JNum("2.0")>>))
      [] type_name \in {"bevy_math::vec3::Vec3", "bevy_math::vec3a::Vec3A"} ->
            Ok(JArr(<<JNum("1.0"), JNum("2.0"), JNum("3.0")>>))
      [] type_name = "bevy_math::vec4::Vec4" ->
            Ok(JArr(<<JNum("1.0"), JNum("2.0"), JNum("3.0"), JNum("4.0")>>))
      [] type_name = "bevy_math::quat::Quat" ->
            Ok(JArr(<<JNum("0.0"), JNum("0.0"), JNum("0.0"), JNum("1.0")>>))
      [] type_name = "bevy_math::mat2::Mat2" ->
            Ok(JArr(<<JArr(<<JNum("1.0"), JNum("0.0")>>),
                      JArr(<<JNum("0.0"), JNum("1.0")>>)>>))
      [] type_name = "bevy_math::mat3::Mat3" ->
            Ok(JArr(<<JArr(<<JNum("1.0"), JNum("0.0"), JNum("0.0")>>),
                      JArr(<<JNum("0.0"), JNum("1.0"), JNum("0.0")>>),
                      JArr(<<JNum("0.0"), JNum("0.0"), JNum("1.0")>>)>>))
      [] type_name = "bevy_math::mat4::Mat4" ->
            Ok(JArr(<<JArr(<<JNum("1.0"), JNum("0.0"), JNum("0.0"), JNum("0.0")>>),
                      JArr(<<JNum("0.0"), JNum("1.0"), JNum("0.0"), JNum("0.0")>>),
                      JArr(<<JNum("0.0"), JNum("0.0"), JNum("1.0"), JNum("0.0")>>),
                      JArr(<<JNum("0.0"), JNum("0.0"), JNum("0.0"), JNum("1.0")>>)>>))
      [] type_name \in {"bevy_color::srgba::Srgba", "bevy_color::linear_rgba::LinearRgba"} ->
            Ok(JObj(<< <<"red", JNum("1.0")>>, <<"green", JNum("0.0")>>,
                       <<"blue", JNum("0.0")>>, <<"alpha", JNum("1.0")>> >>))
      [] type_name = "bevy_color::Color" ->
            Ok(JObj(<< <<"Srgba",
                         JObj(<< <<"red", JNum("1.0")>>, <<"green", JNum("0.0")>>,
                                 <<"blue", JNum("0.0")>>, <<"alpha", JNum("1.0")>> >>)>> >>))
      [] type_name = "alloc::vec::Vec" -> Ok(JArr(<<>>))
      [] type_name \in {"std::collections::HashMap", "std::collections::BTreeMap"} ->
            Ok(JObj(<<>>))
      [] type_name = "core::option::Option" -> Ok(JNull)
      [] OTHER ->
            \* DiscoveryError::no_example_for_type
            Err([variant |-> "UnsupportedType",
                 message |-> Text(<<"No example available for type: ", type_name>>)])

is_primitive_type(type_name) ==
    type_name \in {"i8", "i16", "i32", "i64", "i128", "u8", "u16", "u32", "u64",
                   "u128", "f32", "f64", "bool", "char", "alloc::string::String",
                   "std::string::String", "String", "&str", "str"}

generate_default_example_for_type(type_name) ==
    UnwrapOrElse(examples_generate_primitive_example(type_name),
        IF Contains(type_name, "Option") THEN JNull
        ELSE IF Contains(type_name, "Vec") THEN JArr(<<>>)
        ELSE IF Contains(type_name, "HashMap") \/ Contains(type_name, "BTreeMap")
             THEN JObj(<<>>)
        ELSE JStr(<<"example_", LastSegmentOf[type_name]>>))

---------------------------------------------------------------------------
(* src/discovery/types.rs, src/discovery/error.rs, src/discovery/registry.rs *)

analyze_type_info(type_info) == type_info.kind

is_mutable_type(type_info) ==
    analyze_type_info(type_info) \in {"Struct", "TupleStruct", "Tuple"}

\* extract_tuple_struct_fields: (index, type path), the index counted from 0.
extract_tuple_struct_fields(tuple_struct_info) ==
    [i \in 1..Len(tuple_struct_info.fields) |->
        [index |-> i - 1, type_path |-> tuple_struct_info.fields[i]]]

format_generation(message) == [variant |-> "FormatGeneration", message |-> message]

unsupported_type(message) == [variant |-> "UnsupportedType", message |-> message]

type_not_supported_for(type_name, operation) ==
    [variant |-> "UnsupportedType",
     message |-> Text(<<operation, " not supported for type: ", type_name>>)]

\* RegistryError::to_json_error
registry_to_json_error(type_name) ==
    [reason |-> "Type not found in registry",
     details |-> Text(<<"Type '", type_name,
                        "' is not registered with Bevy's type registry">>)]

\* DiscoveryError::to_json_error
to_json_error(error) ==
    CASE error.variant = "Registry" -> registry_to_json_error(error.type_name)
      [] error.variant = "UnsupportedType" ->
            [reason |-> "Unsupported type", details |-> error.message]
      [] error.variant = "FormatGeneration" ->
            [reason |-> "Format generation error", details |-> error.message]

\* registry::get_type_info_from_registry: one lookup under the read lock.
registry_get_type_info_from_registry(reg, type_name) ==
    IF type_name \in reg
    THEN Ok(TypeInfoOf[type_name])
    ELSE Err([variant |-> "Registry", type_name |-> type_name])

---------------------------------------------------------------------------
(* src/discovery/spawn.rs                                                  *)

SpawnInfo(example, description) == [example |-> example, description |-> description]

\* The example of one struct or tuple-struct field (the loop body).
spawn_field_example(field_type) ==
    IF is_primitive_type(field_type)
    THEN UnwrapOrElse(examples_generate_primitive_example(field_type),
                      generate_default_example_for_type(field_type))
    ELSE generate_default_example_for_type(field_type)

RECURSIVE spawn_struct_loop(_, _, _)
\* for (field_name, field_type) in fields { spawn_example.insert(..) }
spawn_struct_loop(fields, i, spawn_example) ==
    IF i > Len(fields) THEN spawn_example
    ELSE spawn_struct_loop(fields, i + 1,
            MapInsert(spawn_example, fields[i].name,
                      spawn_field_example(fields[i].type_path)))

generate_spawn_format_for_struct(struct_info) ==
    LET spawn_example == spawn_struct_loop(struct_info.fields, 1, <<>>)
    IN  Ok(SpawnInfo(JObj(spawn_example),
                     <<"Spawn format for struct with ", ToString(Len(spawn_example)),
                       " fields">>))

generate_spawn_format_for_tuple_struct(tuple_struct_info) ==
    LET fields == extract_tuple_struct_fields(tuple_struct_info)
        spawn_example == [i \in 1..Len(fields) |-> spawn_field_example(fields[i].type_path)]
    IN  Ok(SpawnInfo(JArr(spawn_example),
                     <<"Spawn format for tuple struct with ",
                       ToString(Len(spawn_example)), " fields">>))

RECURSIVE spawn_variant_fields_loop(_, _, _)
\* for field in struct_variant.iter() { variant_fields.insert(..) }
spawn_variant_fields_loop(fields, i, variant_fields) ==
    IF i > Len(fields) THEN variant_fields
    ELSE spawn_variant_fields_loop(fields, i + 1,
            MapInsert(variant_fields, fields[i].name,
                      generate_default_example_for_type(fields[i].type_path)))

\* The example of one variant (the match of the loop body).
spawn_variant_example(variant_info) ==
    CASE variant_info.kind = "Unit" -> JStr(<<variant_info.name>>)
      [] variant_info.kind = "Struct" ->
            JObj(<< <<variant_info.name,
                      JObj(spawn_variant_fields_loop(variant_info.fields, 1, <<>>))>> >>)
      [] variant_info.kind = "Tuple" ->
            JObj(<< <<variant_info.name,
                      JArr([i \in 1..Len(variant_info.fields) |->
                               generate_default_example_for_type(variant_info.fields[i])])>> >>)

RECURSIVE spawn_enum_loop(_, _, _)
\* for (variant_name, variant_info) in variants { variant_examples.insert(..) }
spawn_enum_loop(variants, i, variant_examples) ==
    IF i > Len(variants) THEN variant_examples
    ELSE spawn_enum_loop(variants, i + 1,
            MapInsert(variant_examples, <<"variant_", variants[i].name>>,
                      spawn_variant_example(variants[i])))

generate_spawn_format_for_enum(enum_info) ==
    LET variants == enum_info.variants
    IN  IF variants = <<>>
        THEN Err(format_generation(Text(<<"Enum has no variants">>)))
        ELSE LET variant_examples == spawn_enum_loop(variants, 1, <<>>)
             IN  Ok(SpawnInfo(JObj(variant_examples),
                     <<"Spawn format for enum with ", ToString(Len(variant_examples)),
                       " variants (showing all possible variants)">>))

generate_spawn_format_for_primitive(type_name) ==
    Try(examples_generate_primitive_example(type_name),
        LAMBDA example :
            Ok(SpawnInfo(example, <<"Spawn format for primitive type: ", type_name>>)))

generate_spawn_format(type_info, type_name) ==
    CASE analyze_type_info(type_info) = "Struct" -> generate_spawn_format_for_struct(type_info)
      [] analyze_type_info(type_info) = "TupleStruct" ->
            generate_spawn_format_for_tuple_struct(type_info)
      [] analyze_type_info(type_info) = "Enum" -> generate_spawn_format_for_enum(type_info)
      [] analyze_type_info(type_info) = "Opaque" ->
            generate_spawn_format_for_primitive(type_name)
      [] OTHER -> Err(type_not_supported_for(type_name, "Spawn format generation"))

---------------------------------------------------------------------------
(* src/discovery/mutation.rs                                               *)

create_field_info(path, value_type, example, description) ==
    [path |-> path, value_type |-> value_type, example |-> example,
     description |-> description]

\* field_info_vec_to_map: collect() into a HashMap keyed by path, the last
\* FieldInfo of a path winning.
field_info_vec_to_map(field_paths) ==
    [p \in {field_paths[i].path : i \in 1..Len(field_paths)} |->
        field_paths[CHOOSE i \in 1..Len(field_paths) :
                        /\ field_paths[i].path = p
                        /\ \A j \in 1..Len(field_paths) :
                               field_paths[j].path = p => j <= i]]

generate_vec_mutation_paths(base_path, field_type) ==
    << create_field_info(base_path \o <<"[0]">>, "array_element",
                         JStr(<<"first_element_value">>),
                         <<"Mutate the first element of the Vec">>),
       create_field_info(base_path \o <<"[1]">>, "array_element",
                         JStr(<<"second_element_value">>),
                         <<"Mutate the second element of the Vec">>) >>

generate_map_mutation_paths(base_path, field_type) ==
    << create_field_info(base_path \o <<"[\"key\"]">>, "map_value",
                         JStr(<<"value_for_key">>),
                         <<"Mutate a value in the map by key">>) >>

generate_math_type_mutation_paths(base_path, field_type) ==
    LET components ==
            IF Contains(field_type, "Vec2")
            THEN << <<"x", "1.0">>, <<"y", "2.0">> >>
            ELSE IF Contains(field_type, "Vec3")
            THEN << <<"x", "1.0">>, <<"y", "2.0">>, <<"z", "3.0">> >>
            ELSE IF Contains(field_type, "Vec4") \/ Contains(field_type, "Quat")
            THEN << <<"x", "1.0">>, <<"y", "2.0">>, <<"z", "3.0">>, <<"w", "4.0">> >>
            ELSE <<>>
    IN  [i \in 1..Len(components) |->
            create_field_info(base_path \o <<".", components[i][1]>>, "f32",
                              JNum(components[i][2]),
                              <<"Mutate the ", components[i][1], " component">>)]

generate_vec3_field_paths(base_path, field_name, default_value, component_values) ==
    << create_field_info(base_path \o <<".", field_name>>, "bevy_math::vec3::Vec3",
                         JArr([i \in 1..3 |-> JNum(default_value[i])]),
                         <<"Mutate the entire ", field_name>>) >>
    \o IF component_values = <<>> THEN <<>>
       ELSE LET components == <<"x", "y", "z">>
            IN  [i \in 1..3 |->
                    create_field_info(base_path \o <<".", field_name, ".", components[i]>>,
                                      "f32", JNum(component_values[i]),
                                      <<"Mutate the ", field_name, " ", components[i],
                                        " component">>)]

generate_transform_mutation_paths(base_path) ==
    generate_vec3_field_paths(base_path, "translation", <<"0.0", "0.0", "0.0">>,
                              <<"10.0", "20.0", "30.0">>)
    \o << create_field_info(base_path \o <<".", "rotation">>, "bevy_math::quat::Quat",
                            JArr(<<JNum("0.0"), JNum("0.0"), JNum("0.0"), JNum("1.0")>>),
                            <<"Mutate the entire rotation">>),
          create_field_info(base_path \o <<".", "scale">>, "bevy_math::vec3::Vec3",
                            JArr(<<JNum("1.0"), JNum("1.0"), JNum("1.0")>>),
                            <<"Mutate the entire scale">>),
          create_field_info(base_path \o <<".", "scale", ".", "x">>, "f32", JNum("2.0"),
                            <<"Mutate the scale x component">>) >>

is_bevy_math_type(type_name) == StartsWithBevyMath(type_name)

is_bevy_transform_type(type_name) == Contains(type_name, "Transform")

\* generate_field_mutation_paths with the example error returned by `?`
\* instead of being replaced by a default, and without sub-paths.
generate_field_mutation_paths_strict(field_name, field_type) ==
    Try(examples_generate_primitive_example(field_type), LAMBDA example_value :
        Ok(<< create_field_info(<<".", field_name>>, field_type, example_value,
                                <<"Mutate the entire ", field_name, " field">>) >>))

generate_field_mutation_paths(field_name, field_type) ==
    LET base_path == <<".", field_name>>
        example_value ==
            IF is_primitive_type(field_type)
            THEN UnwrapOrElse(examples_generate_primitive_example(field_type),
                              generate_default_example_for_type(field_type))
            ELSE generate_default_example_for_type(field_type)
        base == << create_field_info(base_path, field_type, example_value,
                                     <<"Mutate the entire ", field_name, " field">>) >>
    IN  Ok(base \o
           (IF Contains(field_type, "Vec")
            THEN generate_vec_mutation_paths(base_path, field_type)
            ELSE IF Contains(field_type, "HashMap") \/ Contains(field_type, "BTreeMap")
            THEN generate_map_mutation_paths(base_path, field_type)
            ELSE IF is_bevy_math_type(field_type)
            THEN generate_math_type_mutation_paths(base_path, field_type)
            ELSE IF is_bevy_transform_type(field_type)
            THEN generate_transform_mutation_paths(base_path)
            ELSE <<>>))

RECURSIVE mutation_fields_loop(_, _, _)
\* for field in fields { let paths = generate_field_mutation_paths(..)?;
\*                       field_paths.extend(paths) }
mutation_fields_loop(fields, i, field_paths) ==
    IF i > Len(fields) THEN Ok(field_paths)
    ELSE Try(generate_field_mutation_paths(fields[i].name, fields[i].type_path),
             LAMBDA paths : mutation_fields_loop(fields, i + 1, field_paths \o paths))

MutationInfo(fields, description) == [fields |-> fields, description |-> description]

generate_mutation_info_for_struct(struct_info) ==
    Try(mutation_fields_loop(struct_info.fields, 1, <<>>),
        LAMBDA field_paths :
            Ok(MutationInfo(field_info_vec_to_map(field_paths),
                            <<"Mutation info for struct with ",
                              ToString(Len(struct_info.fields)), " fields">>)))

generate_mutation_info_for_tuple_struct(tuple_struct_info) ==
    LET fields == extract_tuple_struct_fields(tuple_struct_info)
        named == [i \in 1..Len(fields) |->
                     [name |-> ToString(fields[i].index),
                      type_path |-> fields[i].type_path]]
    IN  Try(mutation_fields_loop(named, 1, <<>>),
            LAMBDA field_paths :
                Ok(MutationInfo(field_info_vec_to_map(field_paths),
                                <<"Mutation info for tuple struct with ",
                                  ToString(Len(tuple_struct_info.fields)), " fields">>)))

generate_mutation_info(type_info, type_name) ==
    IF ~is_mutable_type(type_info)
    THEN Err(unsupported_type(Text(<<"Type ", type_name,
             " is not mutable (only structs, tuple structs, and tuples support mutation)">>)))
    ELSE CASE analyze_type_info(type_info) = "Struct" ->
                generate_mutation_info_for_struct(type_info)
           [] analyze_type_info(type_info) = "TupleStruct" ->
                generate_mutation_info_for_tuple_struct(type_info)
           [] OTHER -> Err(type_not_supported_for(type_name, "Mutation info generation"))

---------------------------------------------------------------------------
(* src/discovery/core.rs                                                   *)

FormatInfo(type_name, spawn_format, mutation_info) ==
    [type_name |-> type_name, spawn_format |-> spawn_format,
     mutation_info |-> mutation_info]

\* discover_component_format with the spawn error swallowed: a failed spawn
\* format becomes a null placeholder and the type still gets a FormatInfo.
core_discover_component_format_placeholder_spawn(reg, type_name) ==
    Try(registry_get_type_info_from_registry(reg, type_name), LAMBDA type_info :
    Ok(FormatInfo(type_name,
                  UnwrapOrElse(generate_spawn_format(type_info, type_name),
                               SpawnInfo(JNull, <<"No spawn format for ", type_name>>)),
                  MutationInfo(EmptyMap, <<"Type ", type_name, " does not support mutation">>))))

\* discover_component_format without the is_mutable_type guard: mutation info
\* is generated for every type and its error returned with `?`.
core_discover_component_format_unguarded_mutation(reg, type_name) ==
    Try(registry_get_type_info_from_registry(reg, type_name), LAMBDA type_info :
    Try(generate_spawn_format(type_info, type_name), LAMBDA spawn_info :
    Try(generate_mutation_info(type_info, type_name), LAMBDA mutation_info :
    Ok(FormatInfo(type_name, spawn_info, mutation_info)))))

\* core::discover_component_format: lookup, spawn format, mutation info,
\* each `?` returning the error at once.
core_discover_component_format(reg, type_name) ==
    Try(registry_get_type_info_from_registry(reg, type_name), LAMBDA type_info :
    Try(generate_spawn_format(type_info, type_name), LAMBDA spawn_info :
    Try(IF is_mutable_type(type_info)
        THEN generate_mutation_info(type_info, type_name)
        ELSE Ok(MutationInfo(EmptyMap, <<"Type ", type_name, " does not support mutation">>)),
        LAMBDA mutation_info :
    Ok(FormatInfo(type_name, spawn_info, mutation_info)))))

\* The loop body of a loop that gives up once an error has been recorded.
core_discover_multiple_formats_step_stop_at_error(res, reg, type_name) ==
    IF res.errors # EmptyMap
    THEN res
    ELSE Match(core_discover_component_format(reg, type_name),
               LAMBDA format_info :
                   [res EXCEPT !.formats = HashInsert(@, type_name, format_info)],
               LAMBDA error :
                   [res EXCEPT !.errors = HashInsert(@, type_name, to_json_error(error))])

\* One iteration of the for loop of core::discover_multiple_formats_with_debug:
\* the outcome of type_name goes into formats or into errors.
core_discover_multiple_formats_step(res, reg, type_name) ==
    Match(core_discover_component_format(reg, type_name),
          LAMBDA format_info :
              [res EXCEPT !.formats = HashInsert(@, type_name, format_info)],
          LAMBDA error :
              [res EXCEPT !.errors = HashInsert(@, type_name, to_json_error(error))])

---------------------------------------------------------------------------
(* src/discovery.rs: primitives and the error maps                         *)

ErrorInfo(reason, details) == [reason |-> reason, details |-> details]

\* discovery.rs get_type_info_from_registry: the error is the JSON map.
get_type_info_from_registry(reg, type_name) ==
    IF type_name \in reg
    THEN Ok(TypeInfoOf[type_name])
    ELSE Err(ErrorInfo("Type not found in registry",
                       Text(<<"Type '", type_name,
                              "' is not registered with Bevy's type registry">>)))

IntegerNames ==
    {"i8", "i16", "i32", "i64", "i128", "u8", "u16", "u32", "u64", "u128", "usize"}

generate_primitive_example_with_error_handling(type_path) ==
    IF type_path \in {"f32", "f64"} THEN Ok(JNum("1.0"))
    ELSE IF type_path \in IntegerNames THEN Ok(JNum("1"))
    ELSE IF type_path = "bool" THEN Ok(JBool(TRUE))
    ELSE IF type_path \in {"alloc::string::String", "&str"} THEN Ok(JStr(<<"example">>))
    ELSE IF Contains(type_path, "Vec2") THEN Ok(JArr(<<JNum("1.0"), JNum("2.0")>>))
    ELSE IF Contains(type_path, "Vec3")
         THEN Ok(JArr(<<JNum("1.0"), JNum("2.0"), JNum("3.0")>>))
    ELSE IF Contains(type_path, "Vec4")
         THEN Ok(JArr(<<JNum("1.0"), JNum("2.0"), JNum("3.0"), JNum("4.0")>>))
    ELSE IF Contains(type_path, "Quat")
         THEN Ok(JArr(<<JNum("0.0"), JNum("0.0"), JNum("0.0"), JNum("1.0")>>))
    ELSE IF \/ Contains(type_path, "Arc<")
            \/ Contains(type_path, "Handle<")
            \/ Contains(type_path, "StrongHandle")
         THEN Err(ErrorInfo("Type contains Arc<StrongHandle> which requires runtime state",
                  Text(<<"Type '", type_path,
                         "' cannot be represented in JSON as it contains runtime-managed resources">>)))
    ELSE Err(ErrorInfo("Unknown type that cannot be constructed",
             Text(<<"Type '", type_path,
                    "' is not a known primitive type and cannot be represented in JSON">>)))

\* discovery.rs generate_primitive_example: null for what it does not know.
generate_primitive_example(type_path) ==
    IF type_path \in {"f32", "f64"} THEN JNum("1.0")
    ELSE IF type_path \in IntegerNames THEN JNum("1")
    ELSE IF type_path = "bool" THEN JBool(TRUE)
    ELSE IF type_path \in {"alloc::string::String", "&str"} THEN JStr(<<"example">>)
    ELSE IF Contains(type_path, "Vec2") THEN JArr(<<JNum("1.0"), JNum("2.0")>>)
    ELSE IF Contains(type_path, "Vec3") THEN JArr(<<JNum("1.0"), JNum("2.0"), JNum("3.0")>>)
    ELSE IF Contains(type_path, "Vec4")
         THEN JArr(<<JNum("1.0"), JNum("2.0"), JNum("3.0"), JNum("4.0")>>)
    ELSE IF Contains(type_path, "Quat")
         THEN JArr(<<JNum("0.0"), JNum("0.0"), JNum("0.0"), JNum("1.0")>>)
    ELSE JNull

create_unconstructable_fields_error(reason, details) == ErrorInfo(reason, details)

create_no_variants_error(type_path) ==
    ErrorInfo("Enum has no variants",
              Text(<<"Enum '", type_path, "' has no variants to use as an example">>))

\* field_details: one sentence per unconstructable field, naming the field and
\* its type path (the field's own error is not part of the text).
field_details(unconstructable_fields) ==
    [i \in 1..Len(unconstructable_fields) |->
        IF unconstructable_fields[i].named
        THEN <<"Field '", unconstructable_fields[i].field, "' has type ",
               unconstructable_fields[i].type_path,
               " which cannot be represented in JSON">>
        ELSE <<"Field ", unconstructable_fields[i].field, " has type ",
               unconstructable_fields[i].type_path,
               " which cannot be represented in JSON">>]

RECURSIVE object_from_pairs(_, _, _)
\* example_obj.insert(field_name, value) for each collected value, in order.
object_from_pairs(pairs, i, example_obj) ==
    IF i > Len(pairs) THEN example_obj
    ELSE object_from_pairs(pairs, i + 1, MapInsert(example_obj, pairs[i][1], pairs[i][2]))

---------------------------------------------------------------------------
(* src/discovery.rs: the recursive walk with error handling                *)

\* The fields keyed by position, as the tuple code keys them.
named_fields_by_index(fields) ==
    [i \in 1..Len(fields) |->
        [key |-> ToString(i - 1), type_path |-> fields[i].type_path, named |-> TRUE]]

\* struct_info.iter(): (field name, type path).
named_fields(fields) ==
    [i \in 1..Len(fields) |->
        [key |-> fields[i].name, type_path |-> fields[i].type_path, named |-> TRUE]]

\* info.iter().enumerate(): (index from 0, type path).
indexed_fields(fields) ==
    [i \in 1..Len(fields) |->
        [key |-> ToString(i - 1), type_path |-> fields[i], named |-> FALSE]]

NoFields == [values |-> <<>>, unconstructable_fields |-> <<>>]

\* if unconstructable_fields.is_empty() { Ok(..values..) } else { Err(reason,
\* details) } (discovery.rs 740-758)
fields_outcome(acc, OnValues(_), reason) ==
    IF acc.unconstructable_fields = <<>>
    THEN Ok(OnValues(acc.values))
    ELSE Err(create_unconstructable_fields_error(reason,
                 field_details(acc.unconstructable_fields)))

Values(pairs) == [i \in 1..Len(pairs) |-> pairs[i][2]]

RECURSIVE discover_type_format_recursive_with_error_handling(_, _)
RECURSIVE collect_fields_with_error_handling(_, _, _, _)
RECURSIVE generate_struct_example_with_error_handling(_, _)
RECURSIVE generate_tuple_struct_example_with_error_handling(_, _)
RECURSIVE generate_tuple_example_with_error_handling(_, _)
RECURSIVE generate_enum_example_with_error_handling(_, _, _)
RECURSIVE process_tuple_variant(_, _)
RECURSIVE process_struct_variant(_, _)

\* The for loop over the fields: every field is discovered; a value is kept,
\* a failure is pushed to unconstructable_fields, and the loop goes on.
collect_fields_with_error_handling(reg, fields, i, acc) ==
    IF i > Len(fields) THEN acc
    ELSE collect_fields_with_error_handling(reg, fields, i + 1,
             Match(discover_type_format_recursive_with_error_handling(
                       reg, fields[i].type_path),
                   LAMBDA value :
                       [acc EXCEPT !.values = Append(@, <<fields[i].key, value>>)],
                   LAMBDA field_error :
                       [acc EXCEPT !.unconstructable_fields =
                           Append(@, [field |-> fields[i].key,
                                      type_path |-> fields[i].type_path,
                                      named |-> fields[i].named,
                                      field_error |-> field_error])]))

generate_struct_example_with_error_handling(reg, struct_info) ==
    fields_outcome(
        collect_fields_with_error_handling(reg, named_fields(struct_info.fields), 1, NoFields),
        LAMBDA values : JObj(object_from_pairs(values, 1, <<>>)),
        "Type contains unconstructable fields")

generate_tuple_struct_example_with_error_handling(reg, tuple_struct_info) ==
    IF Len(tuple_struct_info.fields) = 1
    THEN discover_type_format_recursive_with_error_handling(reg, tuple_struct_info.fields[1])
    ELSE fields_outcome(
             collect_fields_with_error_handling(reg,
                 indexed_fields(tuple_struct_info.fields), 1, NoFields),
             LAMBDA values : JArr(Values(values)),
             "Type contains unconstructable fields")

generate_tuple_example_with_error_handling(reg, tuple_info) ==
    fields_outcome(
        collect_fields_with_error_handling(reg, indexed_fields(tuple_info.fields), 1, NoFields),
        LAMBDA values : JArr(Values(values)),
        "Type contains unconstructable fields")

process_unit_variant(variant) == JStr(<<variant.name>>)

process_tuple_variant(reg, variant) ==
    IF Len(variant.fields) = 1
    THEN Try(discover_type_format_recursive_with_error_handling(reg, variant.fields[1]),
             LAMBDA field_value : Ok(JObj(<< <<variant.name, field_value>> >>)))
    ELSE fields_outcome(
             collect_fields_with_error_handling(reg, indexed_fields(variant.fields),
                                                1, NoFields),
             LAMBDA values : JObj(<< <<variant.name, JArr(Values(values))>> >>),
             "Enum variant contains unconstructable fields")

process_struct_variant(reg, variant) ==
    fields_outcome(
        collect_fields_with_error_handling(reg, named_fields(variant.fields), 1, NoFields),
        LAMBDA values : JObj(<< <<variant.name, JObj(object_from_pairs(values, 1, <<>>))>> >>),
        "Enum variant contains unconstructable fields")

\* enum_info.iter().next(): the first declared variant, or the no-variants error.
generate_enum_example_with_error_handling(reg, enum_info, type_path) ==
    IF enum_info.variants = <<>>
    THEN Err(create_no_variants_error(type_path))
    ELSE LET first_variant == enum_info.variants[1]
         IN  CASE first_variant.kind = "Unit" -> Ok(process_unit_variant(first_variant))
               [] first_variant.kind = "Tuple" -> process_tuple_variant(reg, first_variant)
               [] first_variant.kind = "Struct" -> process_struct_variant(reg, first_variant)

discover_type_format_recursive_with_error_handling(reg, type_path) ==
    IF type_path \in reg
    THEN LET info == TypeInfoOf[type_path]
         IN  CASE info.kind = "Struct" ->
                    generate_struct_example_with_error_handling(reg, info)
               [] info.kind = "TupleStruct" ->
                    generate_tuple_struct_example_with_error_handling(reg, info)
               [] info.kind = "Enum" ->
                    generate_enum_example_with_error_handling(reg, info, type_path)
               [] info.kind \in {"List", "Array"} -> Ok(JArr(<<>>))
               [] info.kind = "Map" -> Ok(JObj(<<>>))
               [] info.kind = "Tuple" ->
                    generate_tuple_example_with_error_handling(reg, info)
               [] OTHER -> generate_primitive_example_with_error_handling(type_path)
    ELSE generate_primitive_example_with_error_handling(type_path)

---------------------------------------------------------------------------
(* src/discovery.rs: the recursive walk that cannot fail (_with_debug)     *)

RECURSIVE discover_type_format_recursive_with_debug(_, _)
RECURSIVE generate_struct_example_with_debug(_, _)
RECURSIVE generate_tuple_struct_example_with_debug(_, _)
RECURSIVE generate_tuple_example_with_debug(_, _)
RECURSIVE generate_enum_example_with_debug(_, _)
RECURSIVE struct_fields_with_debug(_, _, _, _)

\* for field in info.iter() { example_obj.insert(name, discover(..)) }
struct_fields_with_debug(reg, fields, i, example_obj) ==
    IF i > Len(fields) THEN example_obj
    ELSE struct_fields_with_debug(reg, fields, i + 1,
             MapInsert(example_obj, fields[i].name,
                 discover_type_format_recursive_with_debug(reg, fields[i].type_path)))

generate_struct_example_with_debug(reg, struct_info) ==
    JObj(struct_fields_with_debug(reg, struct_info.fields, 1, <<>>))

generate_tuple_struct_example_with_debug(reg, tuple_struct_info) ==
    IF Len(tuple_struct_info.fields) = 1
    THEN discover_type_format_recursive_with_debug(reg, tuple_struct_info.fields[1])
    ELSE JArr([i \in 1..Len(tuple_struct_info.fields) |->
                  discover_type_format_recursive_with_debug(reg, tuple_struct_info.fields[i])])

generate_tuple_example_with_debug(reg, tuple_info) ==
    JArr([i \in 1..Len(tuple_info.fields) |->
             discover_type_format_recursive_with_debug(reg, tuple_info.fields[i])])

generate_enum_example_with_debug(reg, enum_info) ==
    IF enum_info.variants = <<>>
    THEN JObj(<<>>)
    ELSE LET v == enum_info.variants[1]
         IN  CASE v.kind = "Unit" -> JStr(<<v.name>>)
               [] v.kind = "Tuple" ->
                    IF Len(v.fields) = 1
                    THEN JObj(<< <<v.name,
                             discover_type_format_recursive_with_debug(reg, v.fields[1])>> >>)
                    ELSE JObj(<< <<v.name,
                             JArr([i \in 1..Len(v.fields) |->
                                 discover_type_format_recursive_with_debug(reg, v.fields[i])])>> >>)
               [] v.kind = "Struct" ->
                    JObj(<< <<v.name, JObj(struct_fields_with_debug(reg, v.fields, 1, <<>>))>> >>)

discover_type_format_recursive_with_debug(reg, type_path) ==
    IF type_path \in reg
    THEN LET info == TypeInfoOf[type_path]
         IN  CASE info.kind = "Struct" -> generate_struct_example_with_debug(reg, info)
               [] info.kind = "TupleStruct" ->
                    generate_tuple_struct_example_with_debug(reg, info)
               [] info.kind = "Enum" -> generate_enum_example_with_debug(reg, info)
               [] info.kind \in {"List", "Array"} -> JArr(<<>>)
               [] info.kind = "Map" -> JObj(<<>>)
               [] info.kind = "Tuple" -> generate_tuple_example_with_debug(reg, info)
               [] OTHER -> generate_primitive_example(type_path)
    ELSE generate_primitive_example(type_path)

---------------------------------------------------------------------------
(* src/discovery.rs: spawn format, mutation info and the per-type dispatch *)

generate_spawn_format_for_struct_with_error_handling(reg, struct_info) ==
    fields_outcome(
        collect_fields_with_error_handling(reg, named_fields(struct_info.fields), 1, NoFields),
        LAMBDA values :
            SpawnInfo(JObj(object_from_pairs(values, 1, <<>>)),
                      <<"Struct with ", ToString(Len(struct_info.fields)), " fields">>),
        "Type contains unconstructable fields")

generate_spawn_format_for_struct_with_debug(reg, struct_info) ==
    SpawnInfo(JObj(struct_fields_with_debug(reg, struct_info.fields, 1, <<>>)),
              <<"Struct with ", ToString(Len(struct_info.fields)), " fields">>)

generate_spawn_format_for_tuple_struct_with_error_handling(reg, tuple_struct_info) ==
    IF Len(tuple_struct_info.fields) = 1
    THEN Try(discover_type_format_recursive_with_error_handling(
                 reg, tuple_struct_info.fields[1]),
             LAMBDA example_value :
                 Ok(SpawnInfo(example_value,
                              <<"Newtype wrapper around ", tuple_struct_info.fields[1]>>)))
    ELSE fields_outcome(
             collect_fields_with_error_handling(reg,
                 indexed_fields(tuple_struct_info.fields), 1, NoFields),
             LAMBDA values :
                 SpawnInfo(JArr(Values(values)),
                           <<"Tuple struct with ",
                             ToString(Len(tuple_struct_info.fields)), " fields">>),
             "Type contains unconstructable fields")

generate_spawn_format_for_tuple_struct_with_debug(reg, tuple_struct_info) ==
    IF Len(tuple_struct_info.fields) = 1
    THEN SpawnInfo(discover_type_format_recursive_with_debug(reg, tuple_struct_info.fields[1]),
                   <<"Newtype wrapper around ", tuple_struct_info.fields[1]>>)
    ELSE SpawnInfo(JArr([i \in 1..Len(tuple_struct_info.fields) |->
                       discover_type_format_recursive_with_debug(
                           reg, tuple_struct_info.fields[i])]),
                   <<"Tuple struct with ", ToString(Len(tuple_struct_info.fields)),
                     " fields">>)

\* fields.insert(field_name, FieldInfo { path: ".{field_name}", .. })
generate_mutation_info_for_struct_with_debug(reg, struct_info) ==
    LET fs == struct_info.fields
    IN  MutationInfo(
            [key \in {<<fs[i].name>> : i \in 1..Len(fs)} |->
                LET i == CHOOSE j \in 1..Len(fs) :
                             /\ key = <<fs[j].name>>
                             /\ \A h \in 1..Len(fs) : fs[h].name = fs[j].name => h <= j
                IN  create_field_info(<<".", fs[i].name>>, fs[i].type_path,
                        discover_type_format_recursive_with_debug(reg, fs[i].type_path),
                        <<"Field '", fs[i].name, "' of type ", fs[i].type_path>>)],
            <<"Struct with ", ToString(Len(fs)), " mutable fields">>)

\* fields.insert("field_{index}", FieldInfo { path: ".{index}", .. })
generate_mutation_info_for_tuple_struct_with_debug(reg, tuple_struct_info) ==
    LET fs == tuple_struct_info.fields
    IN  MutationInfo(
            [key \in {<<"field_", ToString(i - 1)>> : i \in 1..Len(fs)} |->
                LET i == CHOOSE j \in 1..Len(fs) : key = <<"field_", ToString(j - 1)>>
                IN  create_field_info(<<".", ToString(i - 1)>>, fs[i],
                        discover_type_format_recursive_with_debug(reg, fs[i]),
                        <<"Tuple field ", ToString(i - 1), " of type ", fs[i]>>)],
            <<"Tuple struct with ", ToString(Len(fs)), " mutable fields">>)

process_struct_type_info(reg, struct_info, type_name) ==
    Try(generate_spawn_format_for_struct_with_error_handling(reg, struct_info),
        LAMBDA spawn_format :
            Ok(FormatInfo(type_name, spawn_format,
                          generate_mutation_info_for_struct_with_debug(reg, struct_info))))

process_tuple_struct_type_info(reg, tuple_struct_info, type_name) ==
    Try(generate_spawn_format_for_tuple_struct_with_error_handling(reg, tuple_struct_info),
        LAMBDA spawn_format :
            Ok(FormatInfo(type_name, spawn_format,
                   generate_mutation_info_for_tuple_struct_with_debug(reg, tuple_struct_info))))

process_enum_type_info(reg, enum_info, type_name) ==
    Try(generate_enum_example_with_error_handling(reg, enum_info, type_name),
        LAMBDA example :
            Ok(FormatInfo(type_name,
                   SpawnInfo(example,
                             <<"Enum with ", ToString(Len(enum_info.variants)), " variants">>),
                   MutationInfo(EmptyMap, <<"Enum types must be replaced entirely">>))))

process_other_type_info(type_name) ==
    FormatInfo(type_name,
               SpawnInfo(JObj(<<>>), <<"Basic format for ", type_name>>),
               MutationInfo(EmptyMap, <<"No mutation fields available for ", type_name>>))

discover_component_format_with_error_info(reg, type_name) ==
    Try(get_type_info_from_registry(reg, type_name), LAMBDA type_info :
        CASE type_info.kind = "Struct" -> process_struct_type_info(reg, type_info, type_name)
          [] type_info.kind = "TupleStruct" ->
                 process_tuple_struct_type_info(reg, type_info, type_name)
          [] type_info.kind = "Enum" -> process_enum_type_info(reg, type_info, type_name)
          [] OTHER -> Ok(process_other_type_info(type_name)))

None == [some |-> FALSE]
Some(v) == [some |-> TRUE, val |-> v]

\* discovery.rs discover_component_format (through .._with_debug): Option<FormatInfo>.
discover_component_format_with_debug(reg, type_name) ==
    IF type_name \notin reg THEN None
    ELSE LET type_info == TypeInfoOf[type_name]
         IN  CASE type_info.kind = "Struct" ->
                    Some(FormatInfo(type_name,
                        generate_spawn_format_for_struct_with_debug(reg, type_info),
                        generate_mutation_info_for_struct_with_debug(reg, type_info)))
               [] type_info.kind = "TupleStruct" ->
                    Some(FormatInfo(type_name,
                        generate_spawn_format_for_tuple_struct_with_debug(reg, type_info),
                        generate_mutation_info_for_tuple_struct_with_debug(reg, type_info)))
               [] type_info.kind = "Enum" ->
                    Some(FormatInfo(type_name,
                        SpawnInfo(generate_enum_example_with_debug(reg, type_info),
                                  <<"Enum with ", ToString(Len(type_info.variants)),
                                    " variants">>),
                        MutationInfo(EmptyMap, <<"Enum types must be replaced entirely">>)))
               [] OTHER ->
                    Some(FormatInfo(type_name,
                        SpawnInfo(JObj(<<>>), <<"Basic format for ", type_name>>),
                        MutationInfo(EmptyMap,
                                     <<"No mutation fields available for ", type_name>>)))

\* One iteration of the for loop of discovery.rs
\* discover_multiple_formats_with_debug.
discover_multiple_formats_step(res, reg, type_name) ==
    Match(discover_component_format_with_error_info(reg, type_name),
          LAMBDA format_info : [res EXCEPT !.formats = HashInsert(@, type_name, format_info)],
          LAMBDA error_info : [res EXCEPT !.errors = HashInsert(@, type_name, error_info)])

---------------------------------------------------------------------------
(* The requests a discovery makes for the read lock of the registry        *)

\* The type paths of the fields of a struct, tuple struct, tuple or variant.
field_type_paths(info) ==
    [i \in 1..Len(info.fields) |->
        IF info.kind = "Struct" THEN info.fields[i].type_path ELSE info.fields[i]]

RECURSIVE recursive_walk_lock_events(_, _)
RECURSIVE fields_lock_events(_, _, _)

\* The walks of the fields, one after the other.
fields_lock_events(reg, type_paths, i) ==
    IF i > Len(type_paths) THEN <<>>
    ELSE recursive_walk_lock_events(reg, type_paths[i])
             \o fields_lock_events(reg, type_paths, i + 1)

\* discover_type_format_recursive_with_error_handling and .._with_debug:
\* `let registry = type_registry.read();` on entry, the guard dropped on
\* return, and in between the walks of the fields of a struct, tuple struct
\* or tuple, or of the first variant of an enum.
recursive_walk_lock_events(reg, type_path) ==
    <<"read">>
    \o (IF type_path \notin reg THEN <<>>
        ELSE LET info == TypeInfoOf[type_path]
             IN  CASE info.kind \in {"Struct", "TupleStruct", "Tuple"} ->
                        fields_lock_events(reg, field_type_paths(info), 1)
                   [] info.kind = "Enum" /\ info.variants # <<>>
                        /\ info.variants[1].kind # "Unit" ->
                        fields_lock_events(reg, field_type_paths(info.variants[1]), 1)
                   [] OTHER -> <<>>)
    \o <<"release">>

\* registry::get_type_info_from_registry and get_type_info_from_registry of
\* discovery.rs: the guard is dropped before the function returns.
lookup_lock_events == <<"read", "release">>

\* discover_component_format_with_error_info: the lookup, the walks of the
\* spawn format and, when that succeeded, the walks of the mutation info.
with_error_info_lock_events(reg, type_name) ==
    lookup_lock_events
    \o (IF type_name \notin reg THEN <<>>
        ELSE LET info == TypeInfoOf[type_name]
             IN  CASE info.kind \in {"Struct", "TupleStruct"} ->
                        fields_lock_events(reg, field_type_paths(info), 1)
                        \o (IF discover_component_format_with_error_info(reg, type_name).ok
                            THEN fields_lock_events(reg, field_type_paths(info), 1)
                            ELSE <<>>)
                   [] info.kind = "Enum" /\ info.variants # <<>>
                        /\ info.variants[1].kind # "Unit" ->
                        fields_lock_events(reg, field_type_paths(info.variants[1]), 1)
                   [] OTHER -> <<>>)

---------------------------------------------------------------------------
(* src/discovery/handler.rs, the response of src/discovery/core.rs, and    *)
(* the handler of src/discovery.rs                                         *)

\* Value::as_str: the text of a JSON string (one piece: not built by format!).
as_str(v) == IF v.k = "string" THEN Some(v.s[1]) ELSE None

\* Value::get(key): the member of a JSON object, None on any other value.
value_get(v, key) ==
    IF v.k = "object" /\ key \in ObjKeys(v)
    THEN Some((CHOOSE e \in Range(v.entries) : e[1] = key)[2])
    ELSE None

\* arr.iter().filter_map(|v| v.as_str()).map(ToString::to_string).collect()
filter_map_as_str(arr) ==
    LET strings == SelectSeq(arr, LAMBDA v : as_str(v).some)
    IN  [i \in 1..Len(strings) |-> as_str(strings[i]).val]

invalid_params_error(message) == [code |-> "INVALID_PARAMS", message |-> message]

MISSING_TYPES_MSG ==
    "Missing required 'types' parameter. Specify component types to get format information for."

extract_type_names(value) ==
    CASE value.k = "array" -> Ok(filter_map_as_str(value.items))
      [] value.k = "string" -> Ok(<<value.s[1]>>)
      [] OTHER -> Err(invalid_params_error(
                         "Parameter 'types' must be a string or array of strings"))

parse_types_parameter(request_params) ==
    IF ~request_params.some THEN Err(invalid_params_error(MISSING_TYPES_MSG))
    ELSE IF ~value_get(request_params.val, "types").some
    THEN Err(invalid_params_error(MISSING_TYPES_MSG))
    ELSE Try(extract_type_names(value_get(request_params.val, "types").val),
             LAMBDA names :
                 IF names = <<>>
                 THEN Err(invalid_params_error(
                          "At least one type must be specified in the 'types' parameter"))
                 ELSE Ok(names))

\* The parameter parsing at the head of discovery.rs handler.
discovery_handler_type_names(request_params) ==
    IF ~request_params.some THEN Err(invalid_params_error(MISSING_TYPES_MSG))
    ELSE IF ~value_get(request_params.val, "types").some
    THEN Err(invalid_params_error(MISSING_TYPES_MSG))
    ELSE extract_type_names(value_get(request_params.val, "types").val)

RECURSIVE Gcd(_, _)
Gcd(a, b) == IF b = 0 THEN a ELSE Gcd(b, a % b)

\* a as f64 / b as f64 for small a and b > 0: the quotient, as a fraction in
\* lowest terms (two divisions give the same f64 iff the fractions are equal).
f64_div(a, b) == [num |-> a \div Gcd(a, b), den |-> b \div Gcd(a, b)]

\* The f64 literal 0.0.
f64_zero == [num |-> 0, den |-> 1]

\* HashMap::len
HashLen(m) == Cardinality(DOMAIN m)

\* The response fields that are present only when there are errors.
response_errors(discovery_result) ==
    IF discovery_result.errors # EmptyMap
    THEN [errors |-> discovery_result.errors,
          error_count |-> HashLen(discovery_result.errors)]
    ELSE <<>>

\* `if let Some(debug_ctx) = debug_context { if !debug_ctx.messages.is_empty()
\* { response["debug_info"] = .. } }` (core.rs 142-146; discovery.rs 1260-1262
\* with the handler's Option in place of `include_debug`).
response_debug_info(debug_context) ==
    IF debug_context.some /\ debug_context.val # <<>>
    THEN [debug_info |-> debug_context.val]
    ELSE <<>>

\* A response that leaves the errors out when a debug context is attached.
create_discovery_response_errors_or_debug(discovery_result, requested_types, debug_context) ==
    [success |-> TRUE,
     formats |-> discovery_result.formats,
     requested_types |-> requested_types,
     discovered_count |-> HashLen(discovery_result.formats),
     summary |->
        [total_requested |-> Len(requested_types),
         successful_discoveries |-> HashLen(discovery_result.formats),
         failed_discoveries |-> HashLen(discovery_result.errors),
         success_rate |->
            IF requested_types = <<>> THEN [num |-> 0, den |-> 1]
            ELSE LET g == CHOOSE d \in 1..Len(requested_types) :
                              /\ HashLen(discovery_result.formats) % d = 0
                              /\ Len(requested_types) % d = 0
                              /\ \A c \in (d + 1)..Len(requested_types) :
                                     ~(HashLen(discovery_result.formats) % c = 0
                                       /\ Len(requested_types) % c = 0)
                 IN  [num |-> HashLen(discovery_result.formats) \div g,
                      den |-> Len(requested_types) \div g]]]
    @@ (IF debug_context.some /\ debug_context.val # <<>>
        THEN [debug_info |-> debug_context.val]
        ELSE IF discovery_result.errors # EmptyMap
        THEN [errors |-> discovery_result.errors,
              error_count |-> HashLen(discovery_result.errors)]
        ELSE <<>>)

\* The debug context the handler hands to the response whatever the flag was.
handler_debug_context_always(include, messages) == Some(messages)

\* `if include_debug { Some(&debug_info) } else { None }` (handler.rs 62-66)
handler_debug_context(include, messages) ==
    IF include THEN Some(messages) ELSE None

\* The messages registry::get_type_info_from_registry pushes.
registry_messages(reg, type_name) ==
    << <<"Getting type info for: ", type_name>>,
       IF type_name \in reg
       THEN <<"Found type in registry: ", type_name>>
       ELSE <<"Type not found in registry: ", type_name>> >>

\* The messages core::discover_component_format pushes itself, and those of
\* the registry lookup. The messages the generators of spawn.rs and
\* mutation.rs push between them are not kept.
core_discover_component_format_messages(reg, type_name) ==
    << <<"Discovering format for type: ", type_name>> >>
    \o registry_messages(reg, type_name)
    \o Match(registry_get_type_info_from_registry(reg, type_name),
             LAMBDA type_info :
                 << <<"Generating spawn format">> >>
                 \o (IF ~generate_spawn_format(type_info, type_name).ok THEN <<>>
                     ELSE << <<"Generating mutation info">> >>
                          \o (IF ~is_mutable_type(type_info)
                              THEN << <<"Type is not mutable, creating empty mutation info">>,
                                      <<"Successfully generated format info">> >>
                              ELSE IF generate_mutation_info(type_info, type_name).ok
                              THEN << <<"Successfully generated format info">> >>
                              ELSE <<>>)),
             LAMBDA error : <<>>)

\* The messages of one iteration of the for loop of
\* core::discover_multiple_formats_with_debug (core.rs 83-98).
core_discover_multiple_formats_step_messages(reg, type_name) ==
    << <<"Processing type: ", type_name>>,
       IF core_discover_component_format(reg, type_name).ok
       THEN <<"Successfully discovered format for: ", type_name>>
       ELSE <<"Failed to discover format for: ", type_name>> >>
    \o core_discover_component_format_messages(reg, type_name)

\* error_info.get("reason").and_then(|v| v.as_str()).unwrap_or("Unknown error")
reason_of(error_info) ==
    IF "reason" \in DOMAIN error_info THEN error_info.reason ELSE "Unknown error"

\* The messages of one iteration of the for loop of discovery.rs
\* discover_multiple_formats_with_debug (1163-1176), with those
\* discover_component_format_with_error_info pushes before its match
\* (150-167). The messages of the generators below it are not kept.
discover_multiple_formats_step_messages(reg, type_name) ==
    << <<"\n=== Discovering format for: ", type_name, " ===">>,
       <<"Discovering format for type: ", type_name>> >>
    \o registry_messages(reg, type_name)
    \o (IF type_name \in reg
        THEN << <<"Type kind: ", IF TypeInfoOf[type_name].kind
                                     \in {"Struct", "TupleStruct", "Enum", "List",
                                          "Array", "Map", "Tuple"}
                                 THEN TypeInfoOf[type_name].kind ELSE "Other">> >>
        ELSE <<>>)
    \o Match(discover_component_format_with_error_info(reg, type_name),
             LAMBDA format_info : <<>>,
             LAMBDA error_info :
                 << <<"Failed to discover format for: ", type_name, " - ",
                      reason_of(error_info)>> >>)

\* What the handler has pushed when the for loop starts: handler.rs 48-49 and
\* core.rs 74-77 (the latter into debug_info only when include_debug); the
\* handler of discovery.rs starts with an empty Vec.
handler_first_messages(e, type_names_, include) ==
    IF e = "monolith" THEN <<>>
    ELSE << <<"Processing request for ", ToString(Len(type_names_)), " types">>,
            <<"Debug mode enabled: ", ToString(include)>> >>
         \o (IF include
             THEN << <<"Discovering formats for ", ToString(Len(type_names_)), " types">> >>
             ELSE <<>>)

\* What the end of the for loop pushes (core.rs 102-106).
handler_last_messages(e, discovery_result) ==
    IF e = "monolith" THEN <<>>
    ELSE << <<"Discovery complete: ", ToString(HashLen(discovery_result.formats)),
              " successful, ", ToString(HashLen(discovery_result.errors)), " errors">> >>

\* Value::as_bool
as_bool(v) == IF v.k = "bool" THEN Some(v.b) ELSE None

\* debug_mode::handler up to the store: the value of `enabled`, or the error.
debug_mode_enabled_parameter(request_params) ==
    IF ~request_params.some
    THEN Err(invalid_params_error("Missing required 'enabled' parameter"))
    ELSE IF ~value_get(request_params.val, "enabled").some
    THEN Err(invalid_params_error("Missing required 'enabled' parameter"))
    ELSE IF ~as_bool(value_get(request_params.val, "enabled").val).some
    THEN Err(invalid_params_error("Parameter 'enabled' must be a boolean"))
    ELSE Ok(as_bool(value_get(request_params.val, "enabled").val).val)

\* debug_mode::handler: its BrpResult.
debug_mode_handler_response(enabled) ==
    Match(enabled,
          LAMBDA on : Ok([success |-> TRUE, debug_enabled |-> on,
                          message |-> IF on
                              THEN "Debug mode enabled - detailed discovery information will be included in responses"
                              ELSE "Debug mode disabled - detailed discovery information will be excluded from responses"]),
          LAMBDA error : Err(error))

\* create_discovery_response with the rate taken over the outcomes instead of
\* over the requested names.
create_discovery_response_rate_of_outcomes(discovery_result, requested_types, debug_context) ==
    [success |-> TRUE,
     formats |-> discovery_result.formats,
     requested_types |-> requested_types,
     discovered_count |-> HashLen(discovery_result.formats),
     summary |->
        [total_requested |-> Len(requested_types),
         successful_discoveries |-> HashLen(discovery_result.formats),
         failed_discoveries |-> HashLen(discovery_result.errors),
         success_rate |->
            IF requested_types = <<>> THEN f64_zero
            ELSE f64_div(HashLen(discovery_result.formats),
                         HashLen(discovery_result.formats)
                             + HashLen(discovery_result.errors))]]
    @@ response_errors(discovery_result)
    @@ response_debug_info(debug_context)

\* core::create_discovery_response
create_discovery_response(discovery_result, requested_types, debug_context) ==
    [success |-> TRUE,
     formats |-> discovery_result.formats,
     requested_types |-> requested_types,
     discovered_count |-> HashLen(discovery_result.formats),
     summary |->
        [total_requested |-> Len(requested_types),
         successful_discoveries |-> HashLen(discovery_result.formats),
         failed_discoveries |-> HashLen(discovery_result.errors),
         success_rate |->
            IF requested_types = <<>> THEN f64_zero
            ELSE f64_div(HashLen(discovery_result.formats), Len(requested_types))]]
    @@ response_errors(discovery_result)
    @@ response_debug_info(debug_context)

\* The response the handler of discovery.rs builds: no summary.
discovery_handler_response(discovery_result, requested_types, debug_context) ==
    [success |-> TRUE,
     formats |-> discovery_result.formats,
     requested_types |-> requested_types,
     discovered_count |-> HashLen(discovery_result.formats)]
    @@ (IF discovery_result.errors # EmptyMap
        THEN [errors |-> discovery_result.errors] ELSE <<>>)
    @@ response_debug_info(debug_context)

---------------------------------------------------------------------------
(* The state machine: discovery calls, registry writes, and single         *)
(* applications of the generators.                                         *)

\* The type names a request may hold.
RequestNames ==
    {T_GOOD, T_BAD, T_MODE, T_NEVER, T_HEALTH, T_VECF, T_UNKNOWN, T_TRANSFORM}

RECURSIVE SeqsUpTo(_, _)
SeqsUpTo(S, n) ==
    IF n = 0 THEN {<<>>}
    ELSE LET shorter == SeqsUpTo(S, n - 1)
         IN  shorter \cup {Append(q, x) : q \in {r \in shorter : Len(r) = n - 1}, x \in S}

Requests == SeqsUpTo(RequestNames, MaxTypes)

\* The type names a handler request may hold.
HandlerNames == {T_TRANSFORM, T_UNKNOWN}

\* The members of a `types` array: names, and a value that is not a string.
ParamItems == {JStr(<<n>>) : n \in HandlerNames} \cup {JNum("1")}

\* The params of a request: absent, without `types`, and `types` a number,
\* null, a string, or an array.
ParamsInputs ==
    {None, Some(JObj(<<>>))}
    \cup {Some(JObj(<< <<"types", types>> >>)) :
              types \in {JNull} \cup ParamItems
                        \cup {JArr(items) : items \in SeqsUpTo(ParamItems, MaxTypes)}}

\* The params of a set_debug_mode request: absent, without `enabled`, and
\* `enabled` a boolean or a number.
DebugParamsInputs ==
    {None, Some(JObj(<<>>))}
    \cup {Some(JObj(<< <<"enabled", enabled>> >>)) :
              enabled \in {JBool(TRUE), JBool(FALSE), JNum("1")}}

NoProbe == [fn |-> "none"]

NoRequest == [fn |-> "none"]

NoResponse == [fn |-> "none"]

\* The lock is free: the calling thread holds no read guard, no writer waits.
FreeLock == [readers |-> 0, writer |-> "idle", registering |-> ""]

NoWalk == [fn |-> "none"]

EmptyResult == [formats |-> EmptyMap, errors |-> EmptyMap]

Init ==
    /\ registry \in {(Registrable \ LateTypes) \cup late : late \in SUBSET LateTypes}
    /\ reg0 = registry
    /\ pc = "idle"
    /\ engine = "modular"
    /\ type_names = <<>>
    /\ idx = 1
    /\ result = EmptyResult
    /\ writes = 0
    /\ probe = NoProbe
    /\ params = NoRequest
    /\ response = NoResponse
    /\ lock = FreeLock
    /\ walk = NoWalk
    /\ DEBUG_ENABLED = FALSE
    /\ include_debug = FALSE
    /\ debug_info = <<>>
    /\ stack = <<>>
    /\ keyboard_events = <<>>
    /\ timed_releases = <<>>
    /\ requests = 0
    /\ time_delta = 0
    /\ pending = [some |-> FALSE]
    /\ app_exits = 0
    /\ shutdowns = <<>>

\* discover_multiple_formats(world, type_names) is entered: formats and errors
\* start empty.
Call(e, names) ==
    /\ pc = "idle"
    /\ pc' = "running"
    /\ engine' = e
    /\ type_names' = names
    /\ idx' = 1
    /\ result' = EmptyResult
    /\ writes' = 0
    /\ reg0' = registry
    /\ probe' = NoProbe
    /\ params' = NoRequest
    /\ response' = NoResponse
    /\ include_debug' = FALSE
    /\ debug_info' = <<>>
    /\ UNCHANGED <<other_vars, registry, lock_vars, DEBUG_ENABLED>>

\* The handler is run on a request: the parameters are parsed, and either the
\* request is rejected or the debug flag is read and the discovery of the
\* parsed names starts.
HandlerStart(e, request_params, parsed) ==
    /\ pc = "idle"
    /\ engine' = e
    /\ params' = request_params
    /\ pc' = IF parsed.ok THEN "running" ELSE "done"
    /\ type_names' = IF parsed.ok THEN parsed.val ELSE <<>>
    /\ response' = IF parsed.ok THEN NoResponse ELSE parsed
    /\ idx' = 1
    /\ result' = EmptyResult
    /\ writes' = 0
    /\ reg0' = registry
    /\ probe' = NoProbe
    /\ include_debug' = (parsed.ok /\ DEBUG_ENABLED)
    /\ debug_info' = IF parsed.ok
                     THEN handler_first_messages(e, parsed.val, DEBUG_ENABLED)
                     ELSE <<>>
    /\ UNCHANGED <<other_vars, registry, lock_vars, DEBUG_ENABLED>>

Handler(e, request_params) ==
    HandlerStart(e, request_params,
                 IF e = "modular" THEN parse_types_parameter(request_params)
                 ELSE discovery_handler_type_names(request_params))

\* One iteration of `for type_name in type_names`.
DiscoverNext ==
    /\ pc = "running"
    /\ idx <= Len(type_names)
    /\ result' = IF engine = "modular"
                 THEN core_discover_multiple_formats_step(result, registry, type_names[idx])
                 ELSE discover_multiple_formats_step(result, registry, type_names[idx])
    /\ idx' = idx + 1
    /\ debug_info' =
          IF ~include_debug THEN debug_info
          ELSE IF engine = "modular"
          THEN debug_info \o core_discover_multiple_formats_step_messages(
                                 registry, type_names[idx])
          ELSE debug_info \o discover_multiple_formats_step_messages(
                                 registry, type_names[idx])
    /\ UNCHANGED <<other_vars, registry, reg0, pc, engine, type_names, writes, probe,
                   handler_vars, lock_vars, DEBUG_ENABLED, include_debug>>

\* The loop is over: the result { formats, errors } is returned and the
\* response is built from it.
Return ==
    /\ pc = "running"
    /\ idx > Len(type_names)
    /\ walk = NoWalk
    /\ pc' = "done"
    /\ debug_info' = IF include_debug
                     THEN debug_info \o handler_last_messages(engine, result)
                     ELSE debug_info
    /\ response' = IF engine = "modular"
                   THEN Ok(create_discovery_response(
                               result, type_names,
                               handler_debug_context(include_debug, debug_info')))
                   ELSE Ok(discovery_handler_response(
                               result, type_names,
                               handler_debug_context(include_debug, debug_info')))
    /\ UNCHANGED <<other_vars, registry, reg0, engine, type_names, idx, result, writes, probe,
                   params, lock_vars, DEBUG_ENABLED, include_debug>>

\* The caller has taken the result (the response has been sent, the output of
\* the generator has been dropped): nothing of the call remains.
Reply ==
    /\ pc \in {"done", "applied", "debug_set", "keys_sent", "shutdown_set"}
    /\ pc' = "idle"
    /\ engine' = "modular"
    /\ type_names' = <<>>
    /\ idx' = 1
    /\ result' = EmptyResult
    /\ writes' = 0
    /\ reg0' = registry
    /\ probe' = NoProbe
    /\ params' = NoRequest
    /\ response' = NoResponse
    /\ include_debug' = FALSE
    /\ debug_info' = <<>>
    /\ UNCHANGED <<other_vars, registry, lock_vars, DEBUG_ENABLED>>

\* debug_mode::handler (the set_debug_mode method) is run on a request: the
\* flag is stored unless the request is rejected.
SetDebugMode(request_params) ==
    /\ pc = "idle"
    /\ pc' = "debug_set"
    /\ DEBUG_ENABLED' = UnwrapOrElse(debug_mode_enabled_parameter(request_params),
                                     DEBUG_ENABLED)
    /\ response' = debug_mode_handler_response(
                       debug_mode_enabled_parameter(request_params))
    /\ UNCHANGED <<other_vars, registry, reg0, engine, type_names, idx, result, writes, probe,
                   params, lock_vars, include_debug, debug_info>>

\* DEBUG_ENABLED.store(enabled, Ordering::Relaxed) by another thread while a
\* discovery request runs.
DebugStoreDuringCall(enabled) ==
    /\ pc = "running"
    /\ DEBUG_ENABLED' = enabled
    /\ UNCHANGED <<other_vars, registry, reg0, pc, engine, type_names, idx, result, writes, probe,
                   handler_vars, lock_vars, include_debug, debug_info>>

\* A type is registered while no discovery call runs.
RegisterType(t) ==
    /\ pc # "running"
    /\ t \in LateTypes \ registry
    /\ registry' = registry \cup {t}
    /\ UNCHANGED <<other_vars, debug_vars, reg0, pc, engine, type_names, idx, result, writes, probe,
                   handler_vars, lock_vars>>

\* Another holder of the AppTypeRegistry Arc takes the write lock between two
\* lookups of a running call and registers a type.
RegisterDuringCall(t) ==
    /\ pc = "running"
    /\ t \in LateTypes \ registry
    /\ registry' = registry \cup {t}
    /\ writes' = writes + 1
    /\ UNCHANGED <<other_vars, debug_vars, reg0, pc, engine, type_names, idx, result, probe,
                   handler_vars, lock_vars>>

\* A generator is applied to one type path, outside a batch.
Apply(fn, t, out) ==
    /\ pc = "idle"
    /\ pc' = "applied"
    /\ probe' = [fn |-> fn, type_name |-> t, reg |-> registry, out |-> out]
    /\ UNCHANGED <<other_vars, debug_vars, registry, reg0, engine, type_names, idx, result, writes,
                   handler_vars, lock_vars>>

ApplySpawnFormat ==
    \E t \in registry :
        Apply("generate_spawn_format", t, generate_spawn_format(TypeInfoOf[t], t))

ApplyMutationInfo ==
    \E t \in registry :
        Apply("generate_mutation_info", t, generate_mutation_info(TypeInfoOf[t], t))

ApplyCoreDiscover ==
    \E t \in TypePaths :
        Apply("core::discover_component_format", t,
              core_discover_component_format(registry, t))

ApplyRecursiveWithErrorHandling ==
    \E t \in TypePaths :
        Apply("discover_type_format_recursive_with_error_handling", t,
              discover_type_format_recursive_with_error_handling(registry, t))

ApplyRecursiveWithDebug ==
    \E t \in TypePaths :
        Apply("discover_type_format_recursive_with_debug", t,
              discover_type_format_recursive_with_debug(registry, t))

ApplyWithErrorInfo ==
    \E t \in TypePaths :
        Apply("discover_component_format_with_error_info", t,
              discover_component_format_with_error_info(registry, t))

ApplyDiscoverComponentFormat ==
    \E t \in TypePaths :
        Apply("discover_component_format", t,
              discover_component_format_with_debug(registry, t))

ApplyPrimitiveExample ==
    \E t \in PrimitiveInputs :
        Apply("examples::generate_primitive_example", t,
              examples_generate_primitive_example(t))

ApplyPrimitiveExampleWithErrorHandling ==
    \E t \in PrimitiveInputs :
        Apply("generate_primitive_example_with_error_handling", t,
              generate_primitive_example_with_error_handling(t))

Next ==
    \/ \E e \in {"modular", "monolith"}, names \in Requests : Call(e, names)
    \/ \E e \in {"modular", "monolith"}, request_params \in ParamsInputs :
           Handler(e, request_params)
    \/ DiscoverNext
    \/ Return
    \/ Reply
    \/ \E request_params \in DebugParamsInputs : SetDebugMode(request_params)
    \/ \E t \in LateTypes : RegisterType(t)
    \/ ApplySpawnFormat
    \/ ApplyMutationInfo
    \/ ApplyCoreDiscover
    \/ ApplyRecursiveWithErrorHandling
    \/ ApplyRecursiveWithDebug
    \/ ApplyWithErrorInfo
    \/ ApplyDiscoverComponentFormat
    \/ ApplyPrimitiveExample
    \/ ApplyPrimitiveExampleWithErrorHandling

\* Calls run alone: the registry is written only between calls.
Spec == Init /\ [][Next]_vars

NextConc ==
    \/ Next
    \/ \E t \in LateTypes : RegisterDuringCall(t)
    \/ \E enabled \in BOOLEAN : DebugStoreDuringCall(enabled)

\* The registry and the debug flag may be written between two lookups of a
\* running call.
SpecConc == Init /\ [][NextConc]_vars

\* The discovery of type_names[idx] starts: its first request for the read
\* lock is granted, the lookup of the name is made. What the discovery returns
\* is known from here on: the walks that follow look up field types only, and
\* no field type of a requested name is registered late.
\* RwLock::read is granted when no writer holds or waits for the lock.
LookupName ==
    /\ pc = "running"
    /\ idx <= Len(type_names)
    /\ walk = NoWalk
    /\ lock.writer = "idle"
    /\ lock' = [lock EXCEPT !.readers = 1]
    /\ walk' = [events |-> Tail(IF engine = "modular" THEN lookup_lock_events
                                ELSE with_error_info_lock_events(registry,
                                                                 type_names[idx])),
                res |-> IF engine = "modular"
                        THEN core_discover_multiple_formats_step(result, registry,
                                                                 type_names[idx])
                        ELSE discover_multiple_formats_step(result, registry,
                                                            type_names[idx])]
    /\ UNCHANGED <<other_vars, debug_vars, registry, reg0, pc, engine, type_names, idx, result, writes, probe,
                   handler_vars>>

\* The next request of the walk for the read lock is granted.
AcquireRead ==
    /\ walk # NoWalk
    /\ walk.events # <<>>
    /\ Head(walk.events) = "read"
    /\ lock.writer = "idle"
    /\ lock' = [lock EXCEPT !.readers = @ + 1]
    /\ walk' = [walk EXCEPT !.events = Tail(@)]
    /\ UNCHANGED <<other_vars, debug_vars, registry, reg0, pc, engine, type_names, idx, result, writes, probe,
                   handler_vars>>

\* A read guard of the walk is dropped.
ReleaseRead ==
    /\ walk # NoWalk
    /\ walk.events # <<>>
    /\ Head(walk.events) = "release"
    /\ lock' = [lock EXCEPT !.readers = @ - 1]
    /\ walk' = [walk EXCEPT !.events = Tail(@)]
    /\ UNCHANGED <<other_vars, debug_vars, registry, reg0, pc, engine, type_names, idx, result, writes, probe,
                   handler_vars>>

\* The discovery of type_names[idx] returns: its outcome goes into formats or
\* errors, and the for loop goes on.
FinishName ==
    /\ walk # NoWalk
    /\ walk.events = <<>>
    /\ result' = walk.res
    /\ idx' = idx + 1
    /\ walk' = NoWalk
    /\ UNCHANGED <<other_vars, debug_vars, registry, reg0, pc, engine, type_names, writes, probe,
                   handler_vars, lock>>

\* Another holder of the AppTypeRegistry Arc calls RwLock::write to register t.
WriterRequest(t) ==
    /\ pc = "running"
    /\ lock.writer = "idle"
    /\ t \in LateTypes \ registry
    /\ lock' = [lock EXCEPT !.writer = "waiting", !.registering = t]
    /\ UNCHANGED <<other_vars, debug_vars, registry, reg0, pc, engine, type_names, idx, result, writes, probe,
                   handler_vars, walk>>

\* RwLock::write is granted when no read guard is held.
WriterAcquire ==
    /\ lock.writer = "waiting"
    /\ lock.readers = 0
    /\ lock' = [lock EXCEPT !.writer = "writing"]
    /\ UNCHANGED <<other_vars, debug_vars, registry, reg0, pc, engine, type_names, idx, result, writes, probe,
                   handler_vars, walk>>

\* The writer registers its type and drops the write guard.
WriterRelease ==
    /\ lock.writer = "writing"
    /\ registry' = registry \cup {lock.registering}
    /\ writes' = writes + 1
    /\ lock' = [lock EXCEPT !.writer = "idle", !.registering = ""]
    /\ UNCHANGED <<other_vars, debug_vars, reg0, pc, engine, type_names, idx, result, probe, handler_vars, walk>>

NextLock ==
    \/ \E e \in {"modular", "monolith"}, names \in Requests : Call(e, names)
    \/ LookupName
    \/ AcquireRead
    \/ ReleaseRead
    \/ FinishName
    \/ Return
    \/ Reply
    \/ \E t \in LateTypes : WriterRequest(t)
    \/ WriterAcquire
    \/ WriterRelease

\* A discovery call, lock request by lock request, next to a writer thread.
SpecLock == Init /\ [][NextLock]_vars

\* The type paths discover_type_format_recursive_with_error_handling calls
\* itself for, in order: the fields of a registered struct, tuple struct or
\* tuple, the fields of the first variant of a registered enum; none for any
\* other type.
walk_children(reg, type_path) ==
    IF type_path \notin reg THEN <<>>
    ELSE CASE TypeInfoOf[type_path].kind \in {"Struct", "TupleStruct", "Tuple"} ->
                  field_type_paths(TypeInfoOf[type_path])
           [] /\ TypeInfoOf[type_path].kind = "Enum"
              /\ TypeInfoOf[type_path].variants # <<>>
              /\ TypeInfoOf[type_path].variants[1].kind # "Unit" ->
                  field_type_paths(TypeInfoOf[type_path].variants[1])
           [] OTHER -> <<>>

\* The types a walk is started on.
WalkRoots ==
    RecursiveTypes \cup {T_PLACED, T_NESTED, T_BAD, T_SHAPE, T_SEG, T_TUP, T_UNKNOWN}

\* The stack has room for MaxDepth frames.
MaxDepth == 5

\* An application that has registered recursive types.
InitWalk ==
    /\ registry \in {(Registrable \ LateTypes) \cup late \cup RecursiveTypes :
                         late \in SUBSET LateTypes}
    /\ reg0 = registry
    /\ pc = "idle"
    /\ engine = "modular"
    /\ type_names = <<>>
    /\ idx = 1
    /\ result = EmptyResult
    /\ writes = 0
    /\ probe = NoProbe
    /\ params = NoRequest
    /\ response = NoResponse
    /\ lock = FreeLock
    /\ walk = NoWalk
    /\ DEBUG_ENABLED = FALSE
    /\ include_debug = FALSE
    /\ debug_info = <<>>
    /\ stack = <<>>
    /\ keyboard_events = <<>>
    /\ timed_releases = <<>>
    /\ requests = 0
    /\ time_delta = 0
    /\ pending = [some |-> FALSE]
    /\ app_exits = 0
    /\ shutdowns = <<>>

\* discover_type_format_recursive_with_error_handling(world, t, ..) is called.
WalkCall(t) ==
    /\ pc = "idle"
    /\ pc' = "walking"
    /\ stack' = << [type_path |-> t, i |-> 1] >>
    /\ UNCHANGED <<registry, reg0, engine, type_names, idx, result, writes, probe,
                   handler_vars, lock_vars, debug_vars, app_vars>>

\* The function on top of the stack calls itself for its next field.
WalkDescend ==
    /\ pc = "walking"
    /\ stack[Len(stack)].i <= Len(walk_children(registry, stack[Len(stack)].type_path))
    /\ Len(stack) < MaxDepth
    /\ stack' = [stack EXCEPT ![Len(stack)].i = @ + 1]
                 \o << [type_path |->
                           walk_children(registry, stack[Len(stack)].type_path)
                               [stack[Len(stack)].i],
                        i |-> 1] >>
    /\ UNCHANGED <<registry, reg0, pc, engine, type_names, idx, result, writes, probe,
                   handler_vars, lock_vars, debug_vars, app_vars>>

\* A nested call has gone through its fields and returns to the call below it.
WalkReturn ==
    /\ pc = "walking"
    /\ Len(stack) > 1
    /\ stack[Len(stack)].i > Len(walk_children(registry, stack[Len(stack)].type_path))
    /\ stack' = SubSeq(stack, 1, Len(stack) - 1)
    /\ UNCHANGED <<registry, reg0, pc, engine, type_names, idx, result, writes, probe,
                   handler_vars, lock_vars, debug_vars, app_vars>>

\* The first call has gone through its fields and returns: its caller has the
\* outcome.
WalkFinish ==
    /\ pc = "walking"
    /\ Len(stack) = 1
    /\ stack[1].i > Len(walk_children(registry, stack[1].type_path))
    /\ stack' = <<>>
    /\ pc' = "applied"
    /\ probe' = [fn |-> "discover_type_format_recursive_with_error_handling",
                 type_name |-> stack[1].type_path,
                 reg |-> registry,
                 out |-> discover_type_format_recursive_with_error_handling(
                             registry, stack[1].type_path)]
    /\ UNCHANGED <<registry, reg0, engine, type_names, idx, result, writes,
                   handler_vars, lock_vars, debug_vars, app_vars>>

\* A step of a walk other than its last.
WalkStep == WalkDescend \/ WalkReturn

\* What a WalkFinish step does to the stack and the position: the steps of
\* NextWalk that satisfy it are the WalkFinish steps, and it can be taken
\* exactly when WalkFinish can.
FirstCallReturns ==
    /\ pc = "walking"
    /\ Len(stack) = 1
    /\ stack[1].i > Len(walk_children(registry, stack[1].type_path))
    /\ stack' = <<>>
    /\ pc' = "applied"

NextWalk ==
    \/ \E t \in WalkRoots : WalkCall(t)
    \/ WalkDescend
    \/ WalkReturn
    \/ WalkFinish
    \/ ApplySpawnFormat
    \/ Reply

\* Spawn-example generation, call by call, in an application with recursive
\* types: a call that can go on does go on.
SpecWalk ==
    /\ InitWalk /\ [][NextWalk]_vars
    /\ WF_vars(WalkStep)
    /\ WF_<<pc, stack>>(FirstCallReturns)

---------------------------------------------------------------------------
(* Properties of a discovery call                                          *)

\* The names the for loop has gone through.
Processed == {type_names[i] : i \in 1..(idx - 1)}

\* A call for the single name n, by engine e, on registry reg.
DiscoveredAlone(e, reg, n) ==
    IF e = "modular"
    THEN core_discover_multiple_formats_step(EmptyResult, reg, n)
    ELSE discover_multiple_formats_step(EmptyResult, reg, n)

\* What a result holds for the name n: its FormatInfo, if any, and its error,
\* if any.
RecordOf(res, n) ==
    [format |-> IF n \in DOMAIN res.formats THEN <<res.formats[n]>> ELSE <<>>,
     error |-> IF n \in DOMAIN res.errors THEN <<res.errors[n]>> ELSE <<>>]

\* The spawn step of discovery.rs discover_component_format_with_error_info,
\* per kind of type.
SpawnStepOfErrorInfo(reg, type_info, type_name) ==
    CASE type_info.kind = "Struct" ->
             generate_spawn_format_for_struct_with_error_handling(reg, type_info)
      [] type_info.kind = "TupleStruct" ->
             generate_spawn_format_for_tuple_struct_with_error_handling(reg, type_info)
      [] type_info.kind = "Enum" ->
             generate_enum_example_with_error_handling(reg, type_info, type_name)
      [] OTHER -> Ok(process_other_type_info(type_name).spawn_format)

\* The registry lookup of n fails, or the spawn format of n fails.
LookupOrSpawnFails(e, reg, n) ==
    IF e = "modular"
    THEN ~Try(registry_get_type_info_from_registry(reg, n),
              LAMBDA type_info : generate_spawn_format(type_info, n)).ok
    ELSE ~Try(get_type_info_from_registry(reg, n),
              LAMBDA type_info : SpawnStepOfErrorInfo(reg, type_info, n)).ok

FieldNames(struct_info) == {struct_info.fields[i].name : i \in 1..Len(struct_info.fields)}

\* C1: when a discovery call has returned, the keys of formats and errors
\* together are exactly the requested names, and what is recorded for each
\* name is what a call for that name alone records (so an earlier failure
\* changes nothing for the names after it).
C1_OneOutcomePerRequestedName ==
    pc = "done" =>
        /\ DOMAIN formats \cup DOMAIN errors = Range(type_names)
        /\ \A n \in Range(type_names) :
               RecordOf(result, n) = RecordOf(DiscoveredAlone(engine, reg0, n), n)

\* A call has returned whose first name failed and whose second name has a format.
C1_FailureThenSuccess ==
    /\ pc = "done"
    /\ Len(type_names) = 2
    /\ type_names[1] \in DOMAIN errors
    /\ type_names[2] \in DOMAIN formats

\* C2: at every point of a call, no type name is a key of both formats and
\* errors, whatever the request list and whatever the registry does between
\* the lookups.
C2_FormatsAndErrorsDisjoint ==
    DOMAIN formats \cap DOMAIN errors = {}

\* C3: a name whose registry lookup or spawn format fails is a key of errors
\* and no key of formats.
C3_FailureGoesToErrorsOnly ==
    pc \in {"running", "done"} =>
        \A n \in Processed :
            LookupOrSpawnFails(engine, reg0, n) =>
                n \in DOMAIN errors /\ n \notin DOMAIN formats

\* A call has returned with an unregistered name and a registered name whose
\* spawn format failed, both in errors.
C3_LookupAndSpawnFailureRecorded ==
    /\ pc = "done"
    /\ \E n \in Range(type_names) : n \notin reg0 /\ n \in DOMAIN errors
    /\ \E n \in Range(type_names) :
           n \in reg0 /\ LookupOrSpawnFails(engine, reg0, n) /\ n \in DOMAIN errors

\* C4: in src/discovery/, a type whose lookup and spawn format succeed and for
\* which generate_mutation_info returns an error is put in formats with an
\* empty mutation_info.fields, and not in errors; discover_component_format
\* alone returns that FormatInfo.
C4_MutationErrorLeavesEmptyFields ==
    /\ (engine = "modular" /\ pc \in {"running", "done"}) =>
           \A n \in Processed :
               ( /\ n \in reg0
                 /\ generate_spawn_format(TypeInfoOf[n], n).ok
                 /\ ~generate_mutation_info(TypeInfoOf[n], n).ok )
               => /\ n \in DOMAIN formats
                  /\ DOMAIN formats[n].mutation_info.fields = {}
                  /\ n \notin DOMAIN errors
    /\ ( /\ probe.fn = "core::discover_component_format"
         /\ probe.type_name \in probe.reg
         /\ generate_spawn_format(TypeInfoOf[probe.type_name], probe.type_name).ok
         /\ ~generate_mutation_info(TypeInfoOf[probe.type_name], probe.type_name).ok )
       => /\ probe.out.ok
          /\ DOMAIN probe.out.val.mutation_info.fields = {}

\* A call of src/discovery/ has returned with the enum Mode in formats.
C4_EnumInFormats ==
    /\ engine = "modular"
    /\ pc = "done"
    /\ T_MODE \in Range(type_names) \cap reg0
    /\ ~generate_mutation_info(TypeInfoOf[T_MODE], T_MODE).ok
    /\ T_MODE \in DOMAIN formats

---------------------------------------------------------------------------
(* src/keyboard.rs: send_keys and the release of the keys it pressed;      *)
(* src/shutdown.rs: the deferred shutdown                                  *)

\* Maximum duration for holding keys in milliseconds (keyboard.rs 15).
MAX_KEY_DURATION_MS == 60000

\* Default duration for holding keys in milliseconds (keyboard.rs 18).
DEFAULT_KEY_DURATION_MS == 100

default_duration == DEFAULT_KEY_DURATION_MS

\* The variants of KeyCodeWrapper that are kept, by name.
KeyCodeWrapper == {"KeyA", "Space"}

\* KeyCodeWrapper::from_str (strum EnumString, PascalCase): the variant with
\* exactly this name.
from_str(s) == IF s \in KeyCodeWrapper THEN Ok([wrapper |-> s]) ELSE Err("VariantNotFound")

\* KeyCodeWrapper::to_key_code
to_key_code(wrapper) == [KeyCode |-> wrapper.wrapper]

parse_key_code(s) ==
    Match(from_str(s),
          LAMBDA wrapper : Ok(to_key_code(wrapper)),
          LAMBDA e : Err(<<"Unknown key code: ", s>>))

\* The for loop of validate_keys from the i-th key string on.
RECURSIVE validate_keys_loop(_, _, _)
validate_keys_loop(keys, i, validated_keys) ==
    IF i > Len(keys) THEN Ok(validated_keys)
    ELSE Match(parse_key_code(keys[i]),
               LAMBDA key_code :
                   validate_keys_loop(keys, i + 1,
                                      Append(validated_keys, <<keys[i], key_code>>)),
               LAMBDA e :
                   Err(invalid_params_error(<<"Invalid key code '", keys[i], "': ", e>>)))

\* validate_keys that leaves out the key strings it cannot parse.
validate_keys_skip_unknown(keys) ==
    Ok([i \in 1..Len(SelectSeq(keys, LAMBDA k : parse_key_code(k).ok)) |->
           <<SelectSeq(keys, LAMBDA k : parse_key_code(k).ok)[i],
             parse_key_code(SelectSeq(keys, LAMBDA k : parse_key_code(k).ok)[i]).val>>])

validate_keys(keys) == validate_keys_loop(keys, 1, <<>>)

\* The JSON numbers of the requests and their values.
NumberOf == ("0" :> 0 @@ "100" :> 100 @@ "60000" :> 60000 @@ "60001" :> 60001
             @@ "-1" :> (0 - 1))

\* u32::deserialize of a JSON value: a number that is a non-negative integer
\* (all numbers kept are below 2^32).
as_u32(v) ==
    IF v.k = "number" /\ v.lit \in DOMAIN NumberOf /\ NumberOf[v.lit] >= 0
    THEN Ok(NumberOf[v.lit])
    ELSE Err("invalid type, expected u32")

\* Vec<String>::deserialize of a JSON value.
as_vec_string(v) ==
    IF v.k = "array" /\ \A i \in 1..Len(v.items) : as_str(v.items[i]).some
    THEN Ok([i \in 1..Len(v.items) |-> as_str(v.items[i]).val])
    ELSE Err("invalid type, expected a sequence of strings")

\* The two fields of SendKeysRequest from their JSON values; duration_ms has
\* #[serde(default = "default_duration")].
send_keys_request_fields(keys, duration_ms) ==
    IF ~keys.some THEN Err("missing field keys")
    ELSE Try(as_vec_string(keys.val),
             LAMBDA key_strings :
                 IF ~duration_ms.some
                 THEN Ok([keys |-> key_strings, duration_ms |-> default_duration])
                 ELSE Try(as_u32(duration_ms.val),
                          LAMBDA ms : Ok([keys |-> key_strings, duration_ms |-> ms])))

\* serde_json::from_value::<SendKeysRequest>: from an object by field name
\* (other members are ignored), from an array by position.
from_value(value) ==
    CASE value.k = "object" ->
             send_keys_request_fields(value_get(value, "keys"),
                                      value_get(value, "duration_ms"))
      [] value.k = "array" ->
             IF Len(value.items) > 2 THEN Err("invalid length")
             ELSE send_keys_request_fields(
                      IF Len(value.items) >= 1 THEN Some(value.items[1]) ELSE None,
                      IF Len(value.items) >= 2 THEN Some(value.items[2]) ELSE None)
      [] OTHER -> Err("invalid type, expected struct SendKeysRequest")

\* send_keys_handler up to the first event (keyboard.rs 459-488): the key
\* strings and key codes and the duration of a request, or the error it is
\* answered with. The keys are validated before the duration.
send_keys_validated(request_params) ==
    IF ~request_params.some
    THEN Err(invalid_params_error("Missing request parameters"))
    ELSE Match(from_value(request_params.val),
               LAMBDA request :
                   Try(validate_keys(request.keys),
                       LAMBDA validated_keys :
                           IF request.duration_ms > MAX_KEY_DURATION_MS
                           THEN Err(invalid_params_error(
                                    <<"Duration ", request.duration_ms,
                                      "ms exceeds maximum allowed duration of ",
                                      MAX_KEY_DURATION_MS, "ms (1 minute)">>))
                           ELSE Ok([valid_key_strings |->
                                        [i \in 1..Len(validated_keys) |-> validated_keys[i][1]],
                                    key_codes |->
                                        [i \in 1..Len(validated_keys) |-> validated_keys[i][2]],
                                    duration_ms |-> request.duration_ms])),
               LAMBDA e : Err(invalid_params_error(<<"Invalid request format: ", e>>)))

\* create_keyboard_events; `by` names the request.
create_keyboard_events(key_codes, press, by) ==
    [i \in 1..Len(key_codes) |->
        [state |-> IF press THEN "Pressed" ELSE "Released",
         key_code |-> key_codes[i],
         by |-> by]]

\* Timer::new(duration, TimerMode::Once)
Timer(duration) == [duration |-> duration, elapsed |-> 0, finished |-> FALSE]

\* Timer::tick that reports the timer finished whatever time has passed.
tick_finished_at_once(timer, delta) ==
    [duration |-> timer.duration, elapsed |-> timer.duration, finished |-> TRUE]

\* Timer::tick(delta) of a TimerMode::Once timer: a finished timer stays as it
\* is, the elapsed time stops at the duration.
tick(timer, delta) ==
    IF timer.finished THEN timer
    ELSE [duration |-> timer.duration,
          elapsed |-> IF timer.elapsed + delta >= timer.duration
                      THEN timer.duration ELSE timer.elapsed + delta,
          finished |-> timer.elapsed + delta >= timer.duration]

\* The events the for loop of send_keys_handler sends (keyboard.rs 490-494).
send_keys_press_events(validated, by) ==
    Match(validated,
          LAMBDA v : create_keyboard_events(v.key_codes, TRUE, by),
          LAMBDA e : <<>>)

\* send_keys_handler spawning the entity for an empty key list too.
send_keys_spawned_always(validated, entity) ==
    Match(validated,
          LAMBDA v : << [entity |-> entity, keys |-> v.key_codes,
                         timer |-> Timer(v.duration_ms)] >>,
          LAMBDA e : <<>>)

\* The entity send_keys_handler spawns (keyboard.rs 496-505), as a list of at
\* most one.
send_keys_spawned(validated, entity) ==
    Match(validated,
          LAMBDA v : IF v.key_codes # <<>>
                     THEN << [entity |-> entity, keys |-> v.key_codes,
                              timer |-> Timer(v.duration_ms)] >>
                     ELSE <<>>,
          LAMBDA e : <<>>)

\* The BrpResult of send_keys_handler.
send_keys_response(validated) ==
    Match(validated,
          LAMBDA v : Ok([success |-> TRUE, keys_sent |-> v.valid_key_strings,
                         duration_ms |-> v.duration_ms]),
          LAMBDA e : Err(e))

\* The entities of the query with their timers ticked (keyboard.rs 538-539).
ticked_releases(releases, delta) ==
    [i \in 1..Len(releases) |->
        [entity |-> releases[i].entity, keys |-> releases[i].keys,
         timer |-> tick(releases[i].timer, delta)]]

\* The Released events of one run of process_timed_key_releases over the
\* ticked entities from the i-th on (keyboard.rs 541-555).
RECURSIVE release_events(_, _)
release_events(ticked, i) ==
    IF i > Len(ticked) THEN <<>>
    ELSE (IF ticked[i].timer.finished
          THEN create_keyboard_events(ticked[i].keys, FALSE, ticked[i].entity)
          ELSE <<>>) \o release_events(ticked, i + 1)

\* The entities left once the despawn commands are applied (keyboard.rs 558).
after_despawn(ticked) == SelectSeq(ticked, LAMBDA r : ~r.timer.finished)

\* u32::saturating_sub
saturating_sub(a, b) == IF a > b THEN a - b ELSE 0

\* The BrpResult of shutdown::handler.
shutdown_handler_response ==
    Ok([success |-> TRUE, message |-> "Shutdown initiated - will exit in 10 frames"])

\* Most send_keys requests of a behaviour.
MaxRequests == 2

\* Most key strings of a request.
MaxKeys == 2

\* The key strings of the requests: two names of variants and a name that is
\* none.
KeyStrings == KeyCodeWrapper \cup {"Key1"}

\* The `duration_ms` members of the requests, None for a request without.
DurationInputs ==
    {None, Some(JNull)} \cup {Some(JNum(lit)) : lit \in {"0", "60000", "60001", "-1"}}

\* The params of a send_keys request: absent, without `keys`, `keys` a
\* string, `keys` with a member that is not a string, an array of the
\* fields, and objects with `keys` an array of key strings.
SendKeysInputs ==
    {None, Some(JObj(<<>>)), Some(JNull),
     Some(JObj(<< <<"keys", JStr(<<"KeyA">>)>> >>)),
     Some(JObj(<< <<"keys", JArr(<<JStr(<<"KeyA">>), JNum("1")>>)>> >>)),
     Some(JArr(<<JArr(<<JStr(<<"Space">>)>>)>>))}
    \cup {Some(JObj(<< <<"keys", JArr([i \in 1..Len(keys) |-> JStr(<<keys[i]>>)])>> >>
                    \o (IF duration_ms.some
                        THEN << <<"duration_ms", duration_ms.val>> >> ELSE <<>>))) :
              keys \in SeqsUpTo(KeyStrings, MaxKeys), duration_ms \in DurationInputs}

\* The time.delta() of a frame, in ms.
Deltas == {0, 30000, 60000}

\* send_keys_handler is run on a request.
SendKeys(request_params) ==
    /\ pc = "idle"
    /\ requests < MaxRequests
    /\ pc' = "keys_sent"
    /\ requests' = requests + 1
    /\ params' = request_params
    /\ keyboard_events' = keyboard_events
           \o send_keys_press_events(send_keys_validated(request_params), requests + 1)
    /\ timed_releases' = timed_releases
           \o send_keys_spawned(send_keys_validated(request_params), requests + 1)
    /\ response' = send_keys_response(send_keys_validated(request_params))
    /\ UNCHANGED <<registry, reg0, engine, type_names, idx, result, writes, probe,
                   lock_vars, debug_vars, stack, time_delta, shutdown_vars>>

\* One run of process_timed_key_releases, in a frame of `delta` ms, with the
\* despawn commands it queued applied.
ProcessTimedKeyReleases(delta) ==
    /\ pc = "idle"
    /\ time_delta' = delta
    /\ keyboard_events' = keyboard_events
           \o release_events(ticked_releases(timed_releases, delta), 1)
    /\ timed_releases' = after_despawn(ticked_releases(timed_releases, delta))
    /\ UNCHANGED <<registry, reg0, pc, engine, type_names, idx, result, writes, probe,
                   handler_vars, lock_vars, debug_vars, stack, requests, shutdown_vars>>

\* A frame in which time has passed.
TimePasses == \E delta \in Deltas \ {0} : ProcessTimedKeyReleases(delta)

NextKeys ==
    \/ \E request_params \in SendKeysInputs : SendKeys(request_params)
    \/ \E delta \in Deltas : ProcessTimedKeyReleases(delta)
    \/ Reply

\* The app before the first send_keys request; the registry plays no part.
InitKeys == Init /\ registry = Registrable

\* send_keys requests and the frames of the app; the system keeps running
\* and the clock keeps advancing.
SpecKeys ==
    /\ InitKeys /\ [][NextKeys]_vars
    /\ WF_vars(Reply)
    /\ WF_vars(TimePasses)

\* Most shutdown requests of a behaviour.
MaxShutdowns == 2

\* Most runs of deferred_shutdown_system after a shutdown request.
MaxRuns == 12

\* shutdown::handler is run on a request; the params are not looked at.
Shutdown(request_params) ==
    /\ pc = "idle"
    /\ Len(shutdowns) < MaxShutdowns
    /\ pc' = "shutdown_set"
    /\ params' = request_params
    /\ pending' = Some(10)
    /\ shutdowns' = Append(shutdowns, 0)
    /\ response' = shutdown_handler_response
    /\ UNCHANGED <<registry, reg0, engine, type_names, idx, result, writes, probe,
                   lock_vars, debug_vars, stack, keyboard_vars, app_exits>>

\* One run of deferred_shutdown_system.
DeferredShutdownSystem ==
    /\ pc = "idle"
    /\ \A i \in 1..Len(shutdowns) : shutdowns[i] < MaxRuns
    /\ pending' = IF pending.some
                  THEN Some(saturating_sub(pending.val, 1)) ELSE pending
    /\ app_exits' = IF pending.some /\ saturating_sub(pending.val, 1) = 0
                    THEN app_exits + 1 ELSE app_exits
    /\ shutdowns' = [i \in 1..Len(shutdowns) |-> shutdowns[i] + 1]
    /\ UNCHANGED <<registry, reg0, pc, engine, type_names, idx, result, writes, probe,
                   handler_vars, lock_vars, debug_vars, stack, keyboard_vars>>

\* The runner of the app has read an AppExit event: no system and no handler
\* runs any more.
AppExit ==
    /\ pc = "idle"
    /\ app_exits > 0
    /\ pc' = "exited"
    /\ UNCHANGED <<registry, reg0, engine, type_names, idx, result, writes, probe,
                   handler_vars, lock_vars, debug_vars, other_vars>>

NextShutdown ==
    \/ \E request_params \in {None, Some(JObj(<<>>))} : Shutdown(request_params)
    \/ DeferredShutdownSystem
    \/ AppExit
    \/ Reply

SpecShutdown == Init /\ [][NextShutdown]_vars

---------------------------------------------------------------------------
(* Properties of the generators, on the last application (probe)           *)

\* The type descriptor the probed generator was given.
ProbedInfo == TypeInfoOf[probe.type_name]

\* The probe is an application of fn to a registered type of the given kind.
Probed(fn, kind) ==
    /\ probe.fn = fn
    /\ probe.type_name \in probe.reg
    /\ ProbedInfo.kind = kind

\* src/discovery.rs cannot build an example of the field type.
Unconstructible(reg, field_type) ==
    ~discover_type_format_recursive_with_error_handling(reg, field_type).ok

\* src/discovery/ has no example of the field type: neither the table of
\* primitives nor a default, only the "example_<name>" string.
NoExampleFor(field_type) ==
    /\ ~examples_generate_primitive_example(field_type).ok
    /\ generate_default_example_for_type(field_type)
           = JStr(<<"example_", LastSegmentOf[field_type]>>)

\* Some sentence of the text holds both the field's name and its type.
NamesField(text, field) ==
    \E i \in 1..Len(text) :
        field.name \in Range(text[i]) /\ field.type_path \in Range(text[i])

\* The example is an object keyed by exactly the declared field names.
KeyedByFieldNames(example, struct_info) ==
    /\ example.k = "object"
    /\ ObjKeys(example) = FieldNames(struct_info)
    /\ Len(example.entries) = Len(struct_info.fields)

\* C5: the spawn format of a struct with a field that has no example fails,
\* and the error text names every such field (name and type), in
\* src/discovery/spawn.rs and in src/discovery.rs.
C5_BadFieldFailsStructNamingAll ==
    /\ ( /\ Probed("generate_spawn_format", "Struct")
         /\ \E i \in 1..Len(ProbedInfo.fields) : NoExampleFor(ProbedInfo.fields[i].type_path) )
       => /\ ~probe.out.ok
          /\ \A i \in 1..Len(ProbedInfo.fields) :
                 NoExampleFor(ProbedInfo.fields[i].type_path)
                     => NamesField(probe.out.err.message, ProbedInfo.fields[i])
    /\ ( /\ Probed("discover_component_format_with_error_info", "Struct")
         /\ \E i \in 1..Len(ProbedInfo.fields) :
                Unconstructible(probe.reg, ProbedInfo.fields[i].type_path) )
       => /\ ~probe.out.ok
          /\ \A i \in 1..Len(ProbedInfo.fields) :
                 Unconstructible(probe.reg, ProbedInfo.fields[i].type_path)
                     => NamesField(probe.out.err.details, ProbedInfo.fields[i])

\* C6: the spawn example of a struct all of whose fields resolve is an object
\* keyed by exactly the declared field names: generate_spawn_format of
\* src/discovery/ (where every field resolves), and the struct example and
\* the struct spawn format of src/discovery.rs.
C6_StructExampleKeyedByFieldNames ==
    /\ Probed("generate_spawn_format", "Struct")
       => /\ probe.out.ok
          /\ KeyedByFieldNames(probe.out.val.example, ProbedInfo)
    /\ ( /\ Probed("discover_type_format_recursive_with_error_handling", "Struct")
         /\ \A i \in 1..Len(ProbedInfo.fields) :
                ~Unconstructible(probe.reg, ProbedInfo.fields[i].type_path) )
       => /\ probe.out.ok
          /\ KeyedByFieldNames(probe.out.val, ProbedInfo)
    /\ ( /\ Probed("discover_component_format_with_error_info", "Struct")
         /\ \A i \in 1..Len(ProbedInfo.fields) :
                ~Unconstructible(probe.reg, ProbedInfo.fields[i].type_path) )
       => /\ probe.out.ok
          /\ KeyedByFieldNames(probe.out.val.spawn_format.example, ProbedInfo)

\* The struct Nested, whose fields are a struct, a list, a map and an array,
\* has been given an example by src/discovery.rs.
C6_NestedStructResolved ==
    /\ Probed("discover_type_format_recursive_with_error_handling", "Struct")
    /\ probe.type_name = T_NESTED
    /\ probe.out.ok

\* C7: the spawn example of a tuple struct with one field is the example of
\* that field, not wrapped, in src/discovery/spawn.rs and in src/discovery.rs.
C7_NewtypeExampleIsInnerExample ==
    /\ ( /\ Probed("generate_spawn_format", "TupleStruct")
         /\ Len(ProbedInfo.fields) = 1
         /\ probe.out.ok )
       => probe.out.val.example = spawn_field_example(ProbedInfo.fields[1])
    /\ ( /\ Probed("discover_component_format_with_error_info", "TupleStruct")
         /\ Len(ProbedInfo.fields) = 1
         /\ probe.out.ok )
       => Ok(probe.out.val.spawn_format.example)
              = discover_type_format_recursive_with_error_handling(
                    probe.reg, ProbedInfo.fields[1])

\* C8: the spawn example of an enum with variants is built from the first
\* declared variant only: the name of the first variant when it is a unit
\* variant, and otherwise an object with the first variant as its one key.
C8_EnumExampleIsFirstVariant ==
    \A fn \in {"generate_spawn_format", "discover_component_format_with_error_info"} :
        ( /\ Probed(fn, "Enum")
          /\ ProbedInfo.variants # <<>>
          /\ probe.out.ok )
        => LET example == IF fn = "generate_spawn_format"
                          THEN probe.out.val.example
                          ELSE probe.out.val.spawn_format.example
               first_variant == ProbedInfo.variants[1]
           IN  IF first_variant.kind = "Unit"
               THEN example = JStr(<<first_variant.name>>)
               ELSE /\ example.k = "object"
                    /\ ObjKeys(example) = {first_variant.name}

\* C9: every generator of an enum example fails on an enum without variants,
\* with a FormatGeneration error: generate_spawn_format and
\* discover_component_format of src/discovery/, and the enum example of
\* src/discovery.rs behind discover_type_format_recursive_with_debug and
\* discover_component_format.
C9_NoVariantsIsFormatGenerationError ==
    /\ \A fn \in {"generate_spawn_format", "core::discover_component_format"} :
           (Probed(fn, "Enum") /\ ProbedInfo.variants = <<>>)
           => /\ ~probe.out.ok
              /\ probe.out.err.variant = "FormatGeneration"
    /\ (Probed("discover_type_format_recursive_with_debug", "Enum")
            /\ ProbedInfo.variants = <<>>)
       => probe.out.k = "error"
    /\ (Probed("discover_component_format", "Enum") /\ ProbedInfo.variants = <<>>)
       => ~probe.out.some

\* C10: a registered List or Array has the empty array as its spawn example
\* and a registered Map the empty object, as the requested type (both
\* discover_component_format functions) and as a field (the field examples of
\* src/discovery/spawn.rs and the recursive walk of src/discovery.rs).
EmptyCollection(kind) == IF kind = "Map" THEN JObj(<<>>) ELSE JArr(<<>>)

C10_CollectionsAreEmptyLiterals ==
    \A kind \in {"List", "Array", "Map"} :
        /\ \A fn \in {"core::discover_component_format",
                      "discover_component_format_with_error_info"} :
               Probed(fn, kind)
               => /\ probe.out.ok
                  /\ probe.out.val.spawn_format.example = EmptyCollection(kind)
        /\ Probed("discover_type_format_recursive_with_error_handling", kind)
           => probe.out = Ok(EmptyCollection(kind))
        /\ Probed("generate_spawn_format", "Struct")
           => \A i \in 1..Len(ProbedInfo.fields) :
                  ( /\ ProbedInfo.fields[i].type_path \in probe.reg
                    /\ TypeInfoOf[ProbedInfo.fields[i].type_path].kind = kind )
                  => \E e \in Range(probe.out.val.example.entries) :
                         e = <<ProbedInfo.fields[i].name, EmptyCollection(kind)>>

\* C11: a registered List, Array, Map or Enum that is requested gets a format
\* whose mutation_info has no fields, and no error: from both
\* discover_component_format functions and in the outcome of a batch.
C11_NonMutableKindsGetEmptyMutationInfo ==
    /\ \A fn \in {"core::discover_component_format",
                  "discover_component_format_with_error_info"} :
           \A kind \in {"List", "Array", "Map", "Enum"} :
               Probed(fn, kind)
               => /\ probe.out.ok
                  /\ DOMAIN probe.out.val.mutation_info.fields = {}
    /\ \A n \in Processed :
           (n \in registry /\ n \in reg0
               /\ TypeInfoOf[n].kind \in {"List", "Array", "Map", "Enum"})
           => /\ n \in DOMAIN formats
              /\ n \notin DOMAIN errors
              /\ DOMAIN formats[n].mutation_info.fields = {}

\* C12: generate_mutation_info returns a MutationInfo for a Struct, a
\* TupleStruct and a Tuple and an UnsupportedType error for every other kind,
\* and is_mutable_type is true exactly where it returns a MutationInfo.
C12_MutableKindsAreWhereMutationInfoSucceeds ==
    probe.fn = "generate_mutation_info"
    => /\ ProbedInfo.kind \in {"Struct", "TupleStruct", "Tuple"} => probe.out.ok
       /\ ProbedInfo.kind \in {"Enum", "List", "Array", "Map", "Set", "Opaque"}
          => /\ ~probe.out.ok
             /\ probe.out.err.variant = "UnsupportedType"
       /\ is_mutable_type(ProbedInfo) <=> probe.out.ok

\* C13: generate_mutation_info of src/discovery/mutation.rs never fails on a
\* struct or a tuple struct, whatever the types of the fields, and the fields
\* map has for every field (a tuple struct field is named by its index) an
\* entry at path ".<field>" whose example is the primitive example of the
\* field type when there is one, and otherwise one of the generic defaults
\* (null, [], {} or "example_<last path segment>"). The same holds for the
\* mutation_info of a FormatInfo of core::discover_component_format.
GenericDefaults(field_type) ==
    {JNull, JArr(<<>>), JObj(<<>>), JStr(<<"example_", LastSegmentOf[field_type]>>)}

BaseEntryOf(fields, field_name, field_type) ==
    LET base_path == <<".", field_name>>
    IN  /\ base_path \in DOMAIN fields
        /\ fields[base_path].path = base_path
        /\ IF examples_generate_primitive_example(field_type).ok
           THEN fields[base_path].example
                    = examples_generate_primitive_example(field_type).val
           ELSE fields[base_path].example \in GenericDefaults(field_type)

BaseEntries(fields, type_info) ==
    IF type_info.kind = "Struct"
    THEN \A i \in 1..Len(type_info.fields) :
             BaseEntryOf(fields, type_info.fields[i].name, type_info.fields[i].type_path)
    ELSE \A i \in 1..Len(type_info.fields) :
             BaseEntryOf(fields, ToString(i - 1), type_info.fields[i])

C13_FieldsNeverFailMutationPaths ==
    \A kind \in {"Struct", "TupleStruct"} :
        /\ Probed("generate_mutation_info", kind)
           => /\ probe.out.ok
              /\ BaseEntries(probe.out.val.fields, ProbedInfo)
        /\ (Probed("core::discover_component_format", kind) /\ probe.out.ok)
           => BaseEntries(probe.out.val.mutation_info.fields, ProbedInfo)

\* generate_mutation_info has been applied to a struct with a field whose
\* type has a primitive example and a field whose type has none.
C13_StructWithUnknownFieldType ==
    /\ Probed("generate_mutation_info", "Struct")
    /\ probe.out.ok
    /\ \E i, j \in 1..Len(ProbedInfo.fields) :
           /\ examples_generate_primitive_example(ProbedInfo.fields[i].type_path).ok
           /\ ~examples_generate_primitive_example(ProbedInfo.fields[j].type_path).ok

\* C14: for a field whose type is a bevy_math vector or quaternion, the
\* entries of the mutation info below the field's base path are exactly one
\* per component (.x .y for Vec2, .x .y .z for Vec3, .x .y .z .w for Vec4 and
\* Quat), each of value type f32; there are no [index] entries.
MathComponents ==
    (T_VEC2 :> {"x", "y"}) @@ (T_VEC3 :> {"x", "y", "z"})
    @@ (T_VEC4 :> {"x", "y", "z", "w"}) @@ (T_QUAT :> {"x", "y", "z", "w"})

\* The paths of the map that extend base_path.
SubPaths(fields, base_path) ==
    {path \in DOMAIN fields :
        /\ Len(path) > Len(base_path)
        /\ SubSeq(path, 1, Len(base_path)) = base_path}

ComponentSubPaths(fields, struct_info) ==
    \A i \in 1..Len(struct_info.fields) :
        struct_info.fields[i].type_path \in DOMAIN MathComponents
        => LET base_path == <<".", struct_info.fields[i].name>>
           IN  /\ SubPaths(fields, base_path)
                    = {base_path \o <<".", c>> :
                           c \in MathComponents[struct_info.fields[i].type_path]}
               /\ \A path \in SubPaths(fields, base_path) :
                      fields[path].value_type = "f32"

C14_MathFieldsGetComponentSubPaths ==
    /\ (Probed("generate_mutation_info", "Struct") /\ probe.out.ok)
       => ComponentSubPaths(probe.out.val.fields, ProbedInfo)
    /\ (Probed("core::discover_component_format", "Struct") /\ probe.out.ok)
       => ComponentSubPaths(probe.out.val.mutation_info.fields, ProbedInfo)

\* C15: the mutation paths of the registered Transform type, from
\* generate_mutation_info and from both discover_component_format functions,
\* include .translation, .translation.x, .translation.y, .translation.z,
\* .rotation, .scale and .scale.x, and include neither .scale.y nor .scale.z.
PathsOf(fields) == {fields[key].path : key \in DOMAIN fields}

TransformPaths(fields) ==
    /\ { <<".", "translation">>, <<".", "translation", ".", "x">>,
         <<".", "translation", ".", "y">>, <<".", "translation", ".", "z">>,
         <<".", "rotation">>, <<".", "scale">>, <<".", "scale", ".", "x">> }
           \subseteq PathsOf(fields)
    /\ <<".", "scale", ".", "y">> \notin PathsOf(fields)
    /\ <<".", "scale", ".", "z">> \notin PathsOf(fields)

C15_TransformMutationPaths ==
    (probe.fn # "none" /\ probe.type_name = T_TRANSFORM /\ T_TRANSFORM \in probe.reg)
    => /\ probe.fn = "generate_mutation_info"
          => /\ probe.out.ok
             /\ TransformPaths(probe.out.val.fields)
       /\ probe.fn \in {"core::discover_component_format",
                        "discover_component_format_with_error_info"}
          => /\ probe.out.ok
             /\ TransformPaths(probe.out.val.mutation_info.fields)

\* C16: generate_primitive_example (src/discovery/examples.rs) and
\* generate_primitive_example_with_error_handling (src/discovery.rs) return
\* for a name the same example whenever they are asked, and for a scalar name
\* of their table a JSON value of the kind of the name: a number for every
\* integer width (i128 and u128 included) and for f32 and f64, a boolean for
\* bool, a string for the string and char names.
DeclaredKind(type_name) ==
    IF type_name \in IntegerNames \cup {"f32", "f64"} THEN "number"
    ELSE IF type_name = "bool" THEN "bool"
    ELSE "string"

C16_PrimitiveExampleKindMatchesName ==
    /\ probe.fn = "examples::generate_primitive_example"
       => /\ probe.out = examples_generate_primitive_example(probe.type_name)
          /\ (probe.type_name \in ScalarNames /\ probe.out.ok)
             => probe.out.val.k = DeclaredKind(probe.type_name)
    /\ probe.fn = "generate_primitive_example_with_error_handling"
       => /\ probe.out = generate_primitive_example_with_error_handling(probe.type_name)
          /\ (probe.type_name \in ScalarNames /\ probe.out.ok)
             => probe.out.val.k = DeclaredKind(probe.type_name)

\* C17: a name outside the table of primitive examples gets an error of the
\* UnsupportedType kind, and the diagnostic for the name of a runtime-managed
\* handle (Arc<..>, Handle<..>, StrongHandle) is not the diagnostic an unknown
\* name gets, the name itself set aside.
ExamplesTable == (ScalarNames \ {"usize"}) \cup {T_VEC2, T_VEC3, T_VEC4, T_QUAT}

MonolithTable ==
    IntegerNames \cup {"f32", "f64", "bool", "alloc::string::String", "&str"}
    \cup {t \in PrimitiveInputs : Patterns[t] \cap {"Vec2", "Vec3", "Vec4", "Quat"} # {}}

IsHandleName(type_name) ==
    Patterns[type_name] \cap {"Arc<", "Handle<", "StrongHandle"} # {}

\* The text with the type name taken out.
Diagnostic(text, type_name) ==
    [i \in 1..Len(text) |->
        [j \in 1..Len(text[i]) |-> IF text[i][j] = type_name THEN "{}" ELSE text[i][j]]]

C17_UnknownNamesAreUnsupportedTypeAndHandlesDiffer ==
    /\ (probe.fn = "examples::generate_primitive_example"
            /\ probe.type_name \notin ExamplesTable)
       => /\ ~probe.out.ok
          /\ probe.out.err.variant = "UnsupportedType"
          /\ IsHandleName(probe.type_name)
             => Diagnostic(probe.out.err.message, probe.type_name)
                  # Diagnostic(examples_generate_primitive_example(T_UNKNOWN).err.message,
                               T_UNKNOWN)
    /\ (probe.fn = "generate_primitive_example_with_error_handling"
            /\ probe.type_name \notin MonolithTable)
       => /\ ~probe.out.ok
          /\ "variant" \in DOMAIN probe.out.err
          /\ probe.out.err.variant = "UnsupportedType"
          /\ IsHandleName(probe.type_name)
             => probe.out.err.reason
                  # generate_primitive_example_with_error_handling(T_UNKNOWN).err.reason

\* C18: in a response built by create_discovery_response the summary has
\* total_requested = the length of the requested list, successful_discoveries
\* = the number of keys of formats, failed_discoveries = the number of keys of
\* errors, and success_rate = successful_discoveries / total_requested, which
\* is 0.0 when nothing was requested.
KeysOfErrors(response_value) ==
    IF "errors" \in DOMAIN response_value THEN DOMAIN response_value.errors ELSE {}

IsArrayOfStrings(v) ==
    v.k = "array" /\ \A i \in 1..Len(v.items) : v.items[i].k = "string"

Malformed(request_params) ==
    \/ ~request_params.some
    \/ ~value_get(request_params.val, "types").some
    \/ LET types == value_get(request_params.val, "types").val
       IN  \/ ~(types.k = "string" \/ IsArrayOfStrings(types))
           \/ types.k = "array" /\ types.items = <<>>

C19_MalformedRequestsAreRejectedBeforeDiscovery ==
    (params # NoRequest /\ Malformed(params))
    => /\ pc = "done"
       /\ ~response.ok
       /\ response.err.code = "INVALID_PARAMS"
       /\ idx = 1
       /\ result = EmptyResult

\* C20: the thread of a discovery call never requests the read lock of the
\* registry while it holds a read guard, and so the call and a writer never
\* wait for each other: the call for a read lock behind the waiting writer,
\* the writer for a guard the call holds.
RequestsReadLock == walk # NoWalk /\ walk.events # <<>> /\ Head(walk.events) = "read"

Deadlocked == RequestsReadLock /\ lock.readers > 0 /\ lock.writer = "waiting"

C20_ReadLockPerLookupNoDeadlock ==
    /\ RequestsReadLock => lock.readers = 0
    /\ ~Deadlocked

\* C21: a discover_format request reads the debug flag once, when the handler
\* starts the discovery: whatever is stored into the flag while the request
\* runs, its response carries debug_info exactly if the flag was true at that
\* read and the messages of the request are not empty, and the messages
\* attached are those of this request, which name its types in order.
RequestedInTrace(trace) ==
    LET heads == SelectSeq(trace, LAMBDA m : m[1] \in {"Processing type: ",
                                                       "\n=== Discovering format for: "})
    IN  [i \in 1..Len(heads) |-> heads[i][2]]

HasDebugInfo == "debug_info" \in DOMAIN response.val

Answered == pc = "done" /\ params # NoRequest /\ response.ok

C21_DebugFlagReadOnceBeforeDispatch ==
    /\ [](Answered =>
            /\ HasDebugInfo <=> (include_debug /\ debug_info # <<>>)
            /\ HasDebugInfo => (/\ response.val.debug_info = debug_info
                                /\ RequestedInTrace(debug_info) = type_names))
    /\ [][/\ (pc = "idle" /\ pc' = "running" /\ params' # NoRequest)
              => (include_debug' = DEBUG_ENABLED)
          /\ (pc = "running") => (include_debug' = include_debug)]_vars

\* The flag was true when the request started and has been set to false while
\* the request ran: the response carries the messages of the request.
C21_FlagClearedWhileRunning ==
    /\ Answered /\ engine = "modular"
    /\ include_debug /\ ~DEBUG_ENABLED
    /\ type_names = <<T_UNKNOWN, T_TRANSFORM>>
    /\ HasDebugInfo
    /\ RequestedInTrace(response.val.debug_info) = <<T_UNKNOWN, T_TRANSFORM>>

\* C22: the formats, the errors and the summary of a response are those of
\* the registry and the requested names alone: a request answered with debug
\* mode on and one answered with debug mode off differ in debug_info only.
RECURSIVE ResultFrom(_, _, _, _, _)
ResultFrom(e, reg, names, i, res) ==
    IF i > Len(names) THEN res
    ELSE ResultFrom(e, reg, names, i + 1,
                    IF e = "modular"
                    THEN core_discover_multiple_formats_step(res, reg, names[i])
                    ELSE discover_multiple_formats_step(res, reg, names[i]))

WithoutDebugInfo(response_value) ==
    [key \in DOMAIN response_value \ {"debug_info"} |-> response_value[key]]

C22_TracingNeverChangesResults ==
    Answered =>
        /\ result = ResultFrom(engine, reg0, type_names, 1, EmptyResult)
        /\ WithoutDebugInfo(response.val)
             = IF engine = "modular"
               THEN create_discovery_response(
                        ResultFrom(engine, reg0, type_names, 1, EmptyResult),
                        type_names, None)
               ELSE discovery_handler_response(
                        ResultFrom(engine, reg0, type_names, 1, EmptyResult),
                        type_names, None)

\* A request answered with debug mode on: a format, an error and the messages.
C22_TracedRequestWithFormatAndError ==
    /\ Answered /\ engine = "modular" /\ include_debug
    /\ DOMAIN formats = {T_TRANSFORM}
    /\ DOMAIN errors = {T_UNKNOWN}
    /\ HasDebugInfo
    /\ "errors" \in DOMAIN response.val

\* C23: spawn-example generation (generate_spawn_format of src/discovery/ and
\* discover_type_format_recursive_with_error_handling of src/discovery.rs)
\* never returns an outcome for a registered type whose descriptor graph leads
\* back to the type, and for every other type it returns, with one outcome.
TypeRefs(type_path) ==
    IF type_path \notin DOMAIN TypeInfoOf THEN {}
    ELSE LET info == TypeInfoOf[type_path]
         IN  CASE info.kind \in {"Struct", "TupleStruct", "Tuple"} ->
                      Range(field_type_paths(info))
               [] info.kind \in {"List", "Array"} -> {info.item}
               [] info.kind = "Map" -> {info.key, info.value}
               [] info.kind = "Set" -> {info.value}
               [] info.kind = "Enum" ->
                      UNION {IF info.variants[v].kind = "Unit" THEN {}
                             ELSE Range(field_type_paths(info.variants[v])) :
                                 v \in 1..Len(info.variants)}
               [] OTHER -> {}

RECURSIVE ReachableTypes(_, _)
ReachableTypes(from, n) ==
    IF n = 0 THEN from
    ELSE ReachableTypes(from \cup UNION {TypeRefs(t) : t \in from}, n - 1)

SelfReferential(type_path) ==
    type_path \in ReachableTypes(TypeRefs(type_path), Cardinality(DOMAIN TypeInfoOf))

SpawnExampleReturned ==
    /\ pc = "applied"
    /\ probe.fn \in {"generate_spawn_format",
                      "discover_type_format_recursive_with_error_handling"}

C23_RecursiveTypesNeverReturn ==
    /\ [](SpawnExampleReturned =>
            (~SelfReferential(probe.type_name) /\ probe.out.ok \in BOOLEAN))
    /\ (pc = "walking" /\ ~SelfReferential(stack[1].type_path)) ~> (pc = "applied")


---------------------------------------------------------------------------
(* Properties of send_keys and of the release of keys (SpecKeys)           *)

\* A member of the params of a send_keys request: by name in an object, by
\* position in an array.
RequestMember(p, name, position) ==
    IF p.val.k = "object" THEN value_get(p.val, name)
    ELSE IF p.val.k = "array" /\ Len(p.val.items) >= position
    THEN Some(p.val.items[position])
    ELSE None

\* The params are there and have the shape of a SendKeysRequest: `keys` an
\* array of strings, `duration_ms` left out or a non-negative integer.
WellFormed(p) ==
    /\ p.some
    /\ p.val.k \in {"object", "array"}
    /\ p.val.k = "array" => Len(p.val.items) <= 2
    /\ RequestMember(p, "keys", 1).some
    /\ RequestMember(p, "keys", 1).val.k = "array"
    /\ \A item \in Range(RequestMember(p, "keys", 1).val.items) : item.k = "string"
    /\ RequestMember(p, "duration_ms", 2).some =>
           /\ RequestMember(p, "duration_ms", 2).val.k = "number"
           /\ RequestMember(p, "duration_ms", 2).val.lit \in {"0", "100", "60000", "60001"}

\* The key strings of well-formed params.
RequestedKeys(p) ==
    [i \in 1..Len(RequestMember(p, "keys", 1).val.items) |->
        RequestMember(p, "keys", 1).val.items[i].s[1]]

\* The duration of well-formed params, 100 when it is left out.
RequestedDuration(p) ==
    IF RequestMember(p, "duration_ms", 2).some
    THEN NumberOf[RequestMember(p, "duration_ms", 2).val.lit]
    ELSE 100

\* The request is one that has to be accepted.
Acceptable(p) ==
    /\ WellFormed(p)
    /\ \A key \in Range(RequestedKeys(p)) : key \in KeyCodeWrapper
    /\ RequestedDuration(p) \in 0..60000

\* The events and the entities of the request with number n.
EventsBy(n) == SelectSeq(keyboard_events, LAMBDA event : event.by = n)

ReleasesOf(n) == SelectSeq(timed_releases, LAMBDA r : r.entity = n)

\* send_keys_handler has returned and the caller has not yet taken the result.
KeysHandled == pc = "keys_sent"

\* C24: send_keys is all-or-nothing. A request whose params are missing or
\* malformed, that names a key string that is no key code, or whose
\* duration_ms exceeds 60000 is answered with an invalid-params error and
\* has sent no event and spawned no TimedKeyRelease, not even for the valid
\* keys before the invalid one; every other request (known keys only,
\* duration_ms in 0..60000, 100 when left out) succeeds with its keys and
\* its duration.
C24_SendKeysAllOrNothing ==
    KeysHandled =>
        IF Acceptable(params)
        THEN /\ response.ok
             /\ response.val.success
             /\ response.val.keys_sent = RequestedKeys(params)
             /\ response.val.duration_ms = RequestedDuration(params)
             /\ Len(EventsBy(requests)) = Len(RequestedKeys(params))
        ELSE /\ ~response.ok
             /\ response.err.code = "INVALID_PARAMS"
             /\ EventsBy(requests) = <<>>
             /\ ReleasesOf(requests) = <<>>

\* A request with a valid key before an unknown one has been rejected.
C24_ValidKeyBeforeInvalidRejected ==
    /\ KeysHandled
    /\ WellFormed(params)
    /\ RequestedKeys(params) = <<"KeyA", "Key1">>
    /\ ~response.ok
    /\ EventsBy(requests) = <<>>

\* The requests whose events of the given state are in keyboard_events.
RequestsWith(state) ==
    {keyboard_events[i].by : i \in {j \in 1..Len(keyboard_events) :
                                        keyboard_events[j].state = state}}

KeysBy(n, state) ==
    [i \in 1..Len(SelectSeq(EventsBy(n), LAMBDA event : event.state = state)) |->
        SelectSeq(EventsBy(n), LAMBDA event : event.state = state)[i].key_code]

\* The request with number n has released its keys: one Released event for
\* each Pressed event, and its entity is gone.
ReleasedAll(n) ==
    /\ KeysBy(n, "Released") = KeysBy(n, "Pressed")
    /\ ReleasesOf(n) = <<>>

\* The numbers a request can have.
RequestNumbers == 1..MaxRequests

\* C26: a successful send_keys request with a non-empty key list sends a
\* Pressed event for each key while it is handled; as long as
\* process_timed_key_releases keeps running and time passes, a Released
\* event is eventually sent for each of those keys, exactly once, in a run in
\* which the timer of the request has finished, and the entity is despawned
\* then; no Released event of a request precedes a Pressed event of it.
C26_PressedThenReleasedOnceAfterTimer ==
    /\ []((KeysHandled /\ response.ok) =>
            KeysBy(requests, "Pressed") =
                [i \in 1..Len(response.val.keys_sent) |->
                    [KeyCode |-> response.val.keys_sent[i]]])
    /\ [](\A n \in RequestNumbers :
            /\ KeysBy(n, "Released") = <<>> \/ ReleasedAll(n)
            /\ ReleasesOf(n) # <<>> => KeysBy(n, "Released") = <<>>
            /\ \A i, j \in 1..Len(keyboard_events) :
                   (/\ keyboard_events[i].by = n /\ keyboard_events[j].by = n
                    /\ keyboard_events[i].state = "Pressed"
                    /\ keyboard_events[j].state = "Released") => i < j)
    /\ [][\A n \in RequestNumbers :
            (KeysBy(n, "Released")' # KeysBy(n, "Released")) =>
                /\ ReleasesOf(n) # <<>>
                /\ ReleasesOf(n)[1].timer.elapsed + time_delta'
                       >= ReleasesOf(n)[1].timer.duration]_vars
    /\ \A n \in RequestNumbers :
           (KeysBy(n, "Pressed") # <<>>) ~> ReleasedAll(n)

\* Both requests have pressed and released a key; the keys of the second
\* were released first, in a frame in which the timer of the first did not
\* finish.
C26_HeldThenReleased ==
    /\ pc = "idle"
    /\ timed_releases = <<>>
    /\ Len(keyboard_events) = 4
    /\ keyboard_events[1] = [state |-> "Pressed", key_code |-> [KeyCode |-> "KeyA"], by |-> 1]
    /\ keyboard_events[2] = [state |-> "Pressed", key_code |-> [KeyCode |-> "Space"], by |-> 2]
    /\ keyboard_events[3] = [state |-> "Released", key_code |-> [KeyCode |-> "Space"], by |-> 2]
    /\ keyboard_events[4] = [state |-> "Released", key_code |-> [KeyCode |-> "KeyA"], by |-> 1]

\* The events of the next state that the step has added.
NewEvents == SubSeq(keyboard_events', Len(keyboard_events) + 1, Len(keyboard_events'))

\* C30: when two successful send_keys requests with the same key overlap, no
\* Released event for that key is sent while the timer of a TimedKeyRelease
\* that holds the key is unfinished: after a step that sends a Released
\* event for a key, no entity is left that holds the key.
C30_ReleasedOnlyWhenNoRequestHoldsKey ==
    [][\A i \in 1..Len(NewEvents) :
          NewEvents[i].state = "Released" =>
              \A j \in 1..Len(timed_releases') :
                  NewEvents[i].key_code \notin Range(timed_releases'[j].keys)]_vars

---------------------------------------------------------------------------
(* Properties of the deferred shutdown (SpecShutdown)                      *)

\* The shutdown requests that have seen at least n runs of
\* deferred_shutdown_system.
ShutdownsAfter(n) == {i \in 1..Len(shutdowns) : shutdowns[i] >= n}

\* C27: after a shutdown request, AppExit is not sent during the first 9 runs
\* of deferred_shutdown_system and is sent on the 10th, so that the response
\* is returned before the exit; it is never sent without a shutdown request,
\* and it is sent exactly once per request: at any time the AppExit events
\* written are as many as the requests that have seen their 10th run, and
\* none has been written when the handler returns.
C27_AppExitOnTenthRunOncePerRequest ==
    /\ app_exits = Cardinality(ShutdownsAfter(10))
    /\ (pc = "shutdown_set" /\ Len(shutdowns) = 1) => app_exits = 0

---------------------------------------------------------------------------
(* Properties of the counts of a response and of the two public functions  *)

\* error_count of a response, 0 when the response has none.
ErrorCount(response_value) ==
    IF "error_count" \in DOMAIN response_value THEN response_value.error_count ELSE 0

\* C28: in every discovery response successful_discoveries +
\* failed_discoveries = total_requested and discovered_count + error_count =
\* the length of requested_types, whatever the request list, lists that
\* repeat a type name included.
C28_OutcomeCountsAddUpToRequested ==
    (pc = "done" /\ engine = "modular" /\ response.ok)
    => /\ response.val.summary.successful_discoveries
            + response.val.summary.failed_discoveries
          = response.val.summary.total_requested
       /\ response.val.discovered_count + ErrorCount(response.val)
          = Len(response.val.requested_types)

\* The functions for a single type: discover_component_format of
\* discovery.rs and discover_component_format_simple of discovery/handler.rs
\* (core::discover_component_format followed by .ok()).
SingleTypeFunctions == {"discover_component_format", "core::discover_component_format"}

\* What the function for a single type has returned, as an Option.
SingleOutcome ==
    IF probe.fn = "discover_component_format" THEN probe.out
    ELSE IF probe.out.ok THEN Some(probe.out.val) ELSE None

\* What discover_multiple_formats of the same engine returns for the list of
\* the one name, on the same registry.
BatchOutcome ==
    ResultFrom(IF probe.fn = "discover_component_format" THEN "monolith" ELSE "modular",
               probe.reg, <<probe.type_name>>, 1, EmptyResult)

\* C29: the function for a single type and the function for a list agree:
\* discover_component_format(name) returns a FormatInfo exactly if
\* discover_multiple_formats([name]) has name in formats, with the same spawn
\* example and the same mutation info, and returns nothing exactly if the
\* list call has name in errors.
C29_SingleAndBatchAgree ==
    (pc = "applied" /\ probe.fn \in SingleTypeFunctions)
    => /\ SingleOutcome.some <=> probe.type_name \in DOMAIN BatchOutcome.formats
       /\ ~SingleOutcome.some <=> probe.type_name \in DOMAIN BatchOutcome.errors
       /\ SingleOutcome.some =>
             /\ SingleOutcome.val.spawn_format
                  = BatchOutcome.formats[probe.type_name].spawn_format
             /\ SingleOutcome.val.mutation_info
                  = BatchOutcome.formats[probe.type_name].mutation_info
====
